---- MODULE Spec2Model ----
(***************************************************************************)
(* A state-machine model of the RFB (VNC) client of vncdotool:             *)
(*   src/vncdotool/rfb.py     RFBClient, the protocol engine               *)
(*   src/vncdotool/client.py  VNCDoToolClient, the high-level client       *)
(*                                                                         *)
(* Bytes are naturals in 0..255, byte strings are sequences of them.       *)
(* Scheduling is asyncio's: one task runs at a time and keeps running      *)
(* until it suspends.  No coroutine awaited by an expect-handler suspends  *)
(* (_write, expect, disconnect and the callbacks of both classes contain   *)
(* no transport read, sleep or event wait), so a dataReceived task runs    *)
(* from its start to its end without any other task in between; the        *)
(* receive loop suspends at reader.read(16).  The caller's task awaits the *)
(* operations of VNCDoToolClient between the runs of those tasks;          *)
(* mouseDrag() suspends at each asyncio.sleep(0.2).                        *)
(***************************************************************************)
EXTENDS Integers, Sequences, FiniteSets, TLC

VARIABLES
    script,     \* the scenario: connect() arguments, host class, server bytes,
                \* and the operations the caller may await
    stream,     \* server bytes the transport has not delivered yet
    received,   \* every byte reader.read() has returned so far, in order
    self,       \* the attributes of the client object
    pending,    \* dataReceived tasks created and not yet started
    depth,      \* active invocations of _handleExpected (0: no task runs)
    written,    \* what writer.write() was given, in order
    handed,     \* expect-handler invocations so far: handler, size, block and
                \* what the invocation did (its expect, callbacks, disconnect)
    consumed,   \* bytes deleted from _packet so far, in order
    calls,      \* host callbacks invoked so far, in order
    ops,        \* the operations the caller's task awaited so far: arguments,
                \* the tracked pointer before each step, the messages passed
                \* to _write() and those the writer took, whether the
                \* receive loop ran when the operation began
    drag,       \* what a mouseDrag() asleep has yet to do, <<>> without one
    waiter      \* the caller's operation suspended in updateCommited.wait() and
                \* whether set() has given its future the result, <<>> without one

vars == <<script, stream, received, self, pending, depth, written, handed,
          consumed, calls, ops, drag, waiter>>

----------------------------------------------------------------------------
(* Bounds of the model *)

\* dataReceived tasks that may be queued before one of them runs
MaxPending == 3
\* expect-handler invocations explored in one connection
MaxHandled == 24
\* operations the caller's task awaits
MaxOps == 2
\* nested calls after which Python raises RecursionError
RecursionLimit == 3

----------------------------------------------------------------------------
(* Program constants *)

ReadSize == 16                      \* reader.read(16)
AUTH_INVALID == 0
AUTH_NONE == 1
AUTH_VNC_AUTHENTICATION == 2
AUTH_DIFFIE_HELLMAN == 30
SUPPORTED_AUTHS == {AUTH_NONE, AUTH_VNC_AUTHENTICATION, AUTH_DIFFIE_HELLMAN}
SUPPORTED_SERVER_VERSIONS ==
    {<<3, 3>>, <<3, 7>>, <<3, 8>>, <<3, 889>>, <<4, 0>>, <<4, 1>>, <<5, 0>>}
MAX_CLIENT_VERSION == <<3, 8>>

\* the value None of an attribute that otherwise holds a byte or character string
None == << -1 >>

----------------------------------------------------------------------------
(* struct.pack / struct.unpack, big-endian *)

Min(a, b) == IF a < b THEN a ELSE b
Max(a, b) == IF a < b THEN b ELSE a

\* unpack("!B"), unpack("!H"), unpack("!I") at offset i (1-based).  Lengths of
\* 2^31 and more do not occur in the scenarios of this model.
U8(b, i) == b[i]
U16(b, i) == b[i] * 256 + b[i + 1]
U32(b, i) == ((b[i] * 256 + b[i + 1]) * 256 + b[i + 2]) * 256 + b[i + 3]
\* unpack("!i"): two's complement
S32(b, i) ==
    IF b[i] < 128 THEN U32(b, i)
    ELSE (((b[i] - 256) * 256 + b[i + 1]) * 256 + b[i + 2]) * 256 + b[i + 3]

\* pack("!B"), pack("!H"), pack("!I"), pack("!i")
P8(n) == <<n % 256>>
P16(n) == <<(n \div 256) % 256, n % 256>>
P32(n) == <<(n \div 16777216) % 256, (n \div 65536) % 256, (n \div 256) % 256, n % 256>>
PS32(n) ==
    IF n >= 0 THEN P32(n)
    ELSE LET m == (n + 2147483647) + 1
         IN  <<128 + (m \div 16777216), (m \div 65536) % 256, (m \div 256) % 256, m % 256>>

\* bool(b) of unpack("?") and of pack("!B", flag)
Bool(n) == n # 0
PBool(f) == IF f THEN <<1>> ELSE <<0>>

\* bs[n:] and bs[:n]
Drop(bs, n) == SubSeq(bs, n + 1, Len(bs))
Take(bs, n) == SubSeq(bs, 1, Min(n, Len(bs)))

\* new overrides old, attribute by attribute
Merge(new, old) ==
    [k \in DOMAIN new \cup DOMAIN old |-> IF k \in DOMAIN new THEN new[k] ELSE old[k]]

RECURSIVE Flatten(_)
Flatten(ss) == IF ss = <<>> THEN <<>> ELSE ss[1] \o Flatten(Drop(ss, 1))

----------------------------------------------------------------------------
(* Protocol versions: Python tuple comparison is lexicographic *)

VerLE(a, b) == a[1] < b[1] \/ (a[1] = b[1] /\ a[2] <= b[2])
VerLT(a, b) == VerLE(a, b) /\ a # b
\* min() where the code has max()
VerMin(S) == CHOOSE v \in S : \A w \in S : VerLE(v, w)
VerMax(S) == CHOOSE v \in S : \A w \in S : VerLE(w, v)

\* b"RFB 000.000\n" and bytes.maketrans(b"0123456789", b"0" * 10)
HEADER == <<82, 70, 66, 32, 48, 48, 48, 46, 48, 48, 48, 10>>
IsDigit(c) == c >= 48 /\ c <= 57
HEADER_TRANSLATE(bs) == [i \in DOMAIN bs |-> IF IsDigit(bs[i]) THEN 48 ELSE bs[i]]
StartsWith(whole, prefix) ==
    Len(prefix) <= Len(whole) /\ SubSeq(whole, 1, Len(prefix)) = prefix
\* int(head[a:b]) of three ASCII digits starting at index i (1-based)
Int3(bs, i) == (bs[i] - 48) * 100 + (bs[i + 1] - 48) * 10 + (bs[i + 2] - 48)
\* b"%03d" % n
Fmt03d(n) ==
    IF n < 1000 THEN <<48 + (n \div 100), 48 + ((n \div 10) % 10), 48 + (n % 10)>>
    ELSE <<48 + (n \div 1000)>> \o
         <<48 + ((n \div 100) % 10), 48 + ((n \div 10) % 10), 48 + (n % 10)>>
\* b"RFB %03d.%03d\n" % version
FmtBanner(v) == <<82, 70, 66, 32>> \o Fmt03d(v[1]) \o <<46>> \o Fmt03d(v[2]) \o <<10>>

----------------------------------------------------------------------------
(* PixelFormat: Struct("!BB??HHHBBBxxx"), VALIDATE = False *)

PixelFormat(bpp, depth_, bigendian, truecolor, redmax, greenmax, bluemax, redshift, greenshift, blueshift) ==
    [bpp |-> bpp, depth |-> depth_, bigendian |-> bigendian, truecolor |-> truecolor,
     redmax |-> redmax, greenmax |-> greenmax, bluemax |-> bluemax,
     redshift |-> redshift, greenshift |-> greenshift, blueshift |-> blueshift]

from_bytes(b) ==
    PixelFormat(U8(b, 1), U8(b, 2), Bool(b[3]), Bool(b[4]), U16(b, 5), U16(b, 7),
                U16(b, 9), U8(b, 11), U8(b, 12), U8(b, 13))

to_bytes(pf) ==
    P8(pf.bpp) \o P8(pf.depth) \o PBool(pf.bigendian) \o PBool(pf.truecolor) \o
    P16(pf.redmax) \o P16(pf.greenmax) \o P16(pf.bluemax) \o
    P8(pf.redshift) \o P8(pf.greenshift) \o P8(pf.blueshift) \o <<0, 0, 0>>

bypp(pf) == (7 + pf.bpp) \div 8

DefaultPixelFormat == PixelFormat(32, 24, FALSE, TRUE, 255, 255, 255, 0, 8, 16)
RGB32 == PixelFormat(32, 24, FALSE, TRUE, 255, 255, 255, 0, 8, 16)
RGB24 == PixelFormat(24, 24, FALSE, TRUE, 255, 255, 255, 0, 8, 16)
BGR16 == PixelFormat(16, 16, FALSE, TRUE, 31, 63, 31, 11, 5, 0)
\* the image mode of each known pixel format; "" stands for LookupError
PF2IM(pf) ==
    CASE pf = RGB24 -> "RGB"
      [] pf = RGB32 -> "RGBX"
      [] pf = BGR16 -> "BGR;16"
      [] pf = PixelFormat(24, 24, FALSE, TRUE, 255, 255, 255, 16, 8, 0) -> "BGR"
      [] pf = PixelFormat(32, 24, FALSE, TRUE, 255, 255, 255, 16, 8, 0) -> "BGRX"
      [] OTHER -> ""

----------------------------------------------------------------------------
(* Cryptodome: the values of ciphertext octets are not computed; 256 stands  *)
(* for one octet of ciphertext                                               *)

Opaque(n) == [i \in 1..n |-> 256]
DES_encrypt(key, data) == Opaque(Len(data))
AES_encrypt(key, data) == Opaque(Len(data))

RECURSIVE bytes_to_long(_)
bytes_to_long(bs) ==
    IF bs = <<>> THEN 0 ELSE bytes_to_long(Take(bs, Len(bs) - 1)) * 256 + bs[Len(bs)]
RECURSIVE long_to_bytes(_)
long_to_bytes(n) == IF n < 256 THEN <<n>> ELSE long_to_bytes(n \div 256) \o <<n % 256>>
RECURSIVE pow(_, _, _)
pow(g, e, m) == IF e = 0 THEN 1 % m ELSE (g * pow(g, e - 1, m)) % m
\* f"{text:\0<64}"
PadNul(text, n) == text \o [i \in 1..(n - Min(n, Len(text))) |-> 0]

----------------------------------------------------------------------------
(* What the body of a handler does, gathered in the order the code does it: *)
(*   set         attributes it assigns                                       *)
(*   expect      the (handler, size, args) of its expect() call, or <<>>     *)
(*   writes      the arguments of its _write() calls                         *)
(*   calls       the host callbacks it invokes                               *)
(*   disconnect  it called disconnect()                                      *)
(*   raise       an exception left it                                        *)

Outcome == [set |-> <<>>, expect |-> <<>>, writes |-> <<>>, calls |-> <<>>,
            disconnect |-> FALSE, raise |-> FALSE]
Set(attrs) == [Outcome EXCEPT !.set = attrs]
Call(cb, args) == [Outcome EXCEPT !.calls = << [cb |-> cb, args |-> args] >>]
Raise == [Outcome EXCEPT !.raise = TRUE]

\* o1, and then o2 unless an exception left o1; a _write after disconnect()
\* finds self.writer None and returns
Then(o1, o2) ==
    IF o1.raise THEN o1
    ELSE [set |-> Merge(o2.set, o1.set),
          expect |-> IF o2.expect # <<>> THEN o2.expect ELSE o1.expect,
          writes |-> o1.writes \o (IF o1.disconnect THEN <<>> ELSE o2.writes),
          calls |-> o1.calls \o o2.calls,
          disconnect |-> o1.disconnect \/ o2.disconnect,
          raise |-> o2.raise]

\* expect(): the four assignments
expect(handler, size, args) == [Outcome EXCEPT !.expect = <<handler, size, args>>]
\* an expect() without the guard of _already_expecting
ExpectAlwaysReenters(s) == TRUE
\* expect(): "if not self._already_expecting: await self._handleExpected()"
ExpectReenters(s) == ~s._already_expecting
\* _handleExpected(): "if len(self._packet) >= self._expected_len"
EnoughBuffered(s) == Len(s._packet) >= s._expected_len
\* _handleExpected(): block = bytes(self._packet[: self._expected_len])
TakeBlock(s) == Take(s._packet, s._expected_len)
\* a deletion of one byte more than the block
DelBlockMore(s) == Drop(s._packet, s._expected_len + 1)
\* _handleExpected(): del self._packet[: self._expected_len]
DelBlock(s) == Drop(s._packet, s._expected_len)

\* _write(): one writer.write(data)
_write(kind, data) == [Outcome EXCEPT !.writes = << [kind |-> kind, data |-> data] >>]
\* a _write() that does not look at self.writer
WriteThroughClosed(s, writes) == writes
\* _write(): "if self.writer is None: return"
WriteThrough(s, writes) == IF s.writer = "None" THEN <<>> ELSE writes

\* disconnect()
disconnect == [Outcome EXCEPT !.disconnect = TRUE]
Disconnected(s) ==
    Merge([receive_task |-> IF s.receive_task = "running" THEN "cancelled"
                            ELSE s.receive_task,
           reader |-> "None", writer |-> "None"], s)

\* the attributes after a handler body with outcome o ran on s
After(s, o) ==
    LET s2 == Merge(o.set, s)
        s3 == IF o.expect = <<>> THEN s2
              ELSE Merge([_expected_handler |-> o.expect[1],
                          _expected_len |-> o.expect[2],
                          _expected_args |-> o.expect[3]], s2)
    IN  IF o.disconnect THEN Disconnected(s3) ELSE s3

----------------------------------------------------------------------------
(* Client-to-server messages and callbacks of the two classes *)

ENC_RAW == 0
ENC_COPY_RECTANGLE == 1
ENC_RRE == 2
ENC_CORRE == 4
ENC_HEXTILE == 5
ENC_ZRLE == 16
ENC_PSEUDO_DESKTOP_SIZE == -223
ENC_PSEUDO_LAST_RECT == -224
ENC_PSEUDO_CURSOR == -239
ENC_PSEUDO_QEMU_EXTENDED_KEY_EVENT == -258
ENC_PSEUDO_QEMU_AUDIO == -259

\* setPixelFormat()
setPixelFormat(pixel_format) ==
    Then(_write("SetPixelFormat", <<0, 0, 0, 0>> \o to_bytes(pixel_format)),
         Set([pixel_format |-> pixel_format]))

\* setEncodings(): one write for the head, one for each encoding
RECURSIVE setEncodingsEach(_)
setEncodingsEach(list) ==
    IF list = <<>> THEN Outcome
    ELSE Then(_write("SetEncodings", PS32(list[1])), setEncodingsEach(Drop(list, 1)))
setEncodings(list) ==
    Then(_write("SetEncodings", <<2, 0>> \o P16(Len(list))), setEncodingsEach(list))

\* pointerEvent(): pack("!BBHH", ...) raises struct.error for a number that its
\* field cannot hold
pointerEvent(x, y, buttonmask) ==
    IF buttonmask \notin 0..255 \/ x \notin 0..65535 \/ y \notin 0..65535 THEN Raise
    ELSE _write("PointerEvent", <<5>> \o P8(buttonmask) \o P16(x) \o P16(y))

\* VNCDoToolClient.setImageMode()
setImageMode(s) ==
    IF PF2IM(s.pixel_format) # "" THEN Set([image_mode |-> PF2IM(s.pixel_format)])
    ELSE LET pixel_format == IF s._version_server = <<3, 889>> THEN BGR16 ELSE RGB32
         IN  Then(setPixelFormat(pixel_format), Set([image_mode |-> PF2IM(pixel_format)]))

\* the encodings VNCDoToolClient.vncConnectionMade() offers
OfferedEncodings(s) ==
    <<s.encoding>> \o
    (IF s.pseudocursor \/ s.nocursor THEN <<ENC_PSEUDO_CURSOR>> ELSE <<>>) \o
    (IF s.pseudodesktop THEN <<ENC_PSEUDO_DESKTOP_SIZE>> ELSE <<>>) \o
    (IF s.last_rect THEN <<ENC_PSEUDO_LAST_RECT>> ELSE <<>>) \o
    (IF s.qemu_extended_key THEN <<ENC_PSEUDO_QEMU_EXTENDED_KEY_EVENT>> ELSE <<>>)

\* vncConnectionMade(): RFBClient's does nothing.  The entry of the call log
\* carries the attributes the callback finds stored.
vncConnectionMade(s) ==
    Then(Call("vncConnectionMade", <<s.width, s.height, s.pixel_format, s.name>>),
         IF s.cls = "VNCDoToolClient"
         THEN Then(setImageMode(s), setEncodings(OfferedEncodings(s)))
         ELSE Outcome)

\* _vnc_des(): the octet made of the bits of k in reverse order
reverseBitsKept(k) == k
reverseBits(k) ==
    LET term(i) == IF (k \div 2^i) % 2 = 1 THEN 128 \div 2^i ELSE 0
    IN  term(0) + term(1) + term(2) + term(3) + term(4) + term(5) + term(6) + term(7)

\* _vnc_des(): the password, a sequence of character codes, cut to 8
\* characters or filled up with NUL, encoded in ASCII (UnicodeEncodeError for
\* a code above 127), each octet with its bits reversed
_vnc_desUnpadded(password) ==
    [raise |-> \E i \in DOMAIN password : password[i] > 127,
     key |-> [i \in DOMAIN password |-> reverseBits(password[i])]]
_vnc_des(password) ==
    LET pw == [i \in 1..8 |-> IF i <= Len(password) THEN password[i] ELSE 0]
    IN  [raise |-> \E i \in 1..8 : pw[i] > 127,
         key |-> [i \in 1..8 |-> reverseBits(pw[i])]]

\* sendPassword(): the message carries, beside the ciphertext, the key the
\* cipher was made with
sendPassword(s, password) ==
    LET k == _vnc_des(password)
    IN  IF k.raise THEN Raise
        ELSE [Outcome EXCEPT !.writes = << [kind |-> "VNCResponse",
                                             data |-> DES_encrypt(k.key, s._challenge),
                                             key |-> k.key] >>]

\* vncRequestPassword(): VNCDoToolClient's raises AuthenticationError after
\* disconnect(), RFBClient's returns
vncRequestPassword(s) ==
    IF s.password = None
    THEN IF s.cls = "VNCDoToolClient" THEN Then(disconnect, Raise) ELSE disconnect
    ELSE sendPassword(s, s.password)

\* vncAuthFailed(): logs.  The two reasons the client words itself, in ASCII:
\* "authentication failed" and "too many tries to log in"
AUTHENTICATION_FAILED ==
    <<97, 117, 116, 104, 101, 110, 116, 105, 99, 97, 116, 105, 111, 110, 32, 102, 97, 105, 108, 101, 100>>
TOO_MANY_TRIES ==
    <<116, 111, 111, 32, 109, 97, 110, 121, 32, 116, 114, 105, 101, 115, 32, 116, 111, 32, 108, 111, 103, 32, 105, 110>>
vncAuthFailed(reason) == Call("vncAuthFailed", reason)

\* ardRequestCredentials(): a missing username or password is read from the terminal
Prompted == <<63>>
ardRequestCredentials(s) ==
    Set([username |-> IF s.username = None THEN Prompted ELSE s.username,
         password |-> IF s.password = None THEN Prompted ELSE s.password])

\* _encryptArd() with the secret os.urandom(512) produced; pow() with modulus
\* 0 raises ValueError
_encryptArd(s, secret) ==
    LET userStruct == PadNul(s.username, 64) \o PadNul(s.password, 64)
        g == s.generator
        m == bytes_to_long(s.modulus)
        sk == bytes_to_long(s.serverKey)
    IN  IF m = 0 THEN Raise
        ELSE LET key == long_to_bytes(pow(g, secret, m))
                 shared == long_to_bytes(pow(sk, secret, m))
                 ciphertext == AES_encrypt(shared, userStruct)
             IN  _write("ARDResponse", ciphertext \o key)

----------------------------------------------------------------------------
(* States used on connection startup *)

\* ClientInit that always asks for exclusive access
_doClientInitializationExclusive(s) ==
    Then(_write("ClientInit", PBool(FALSE)), expect("_handleServerInit", 24, <<>>))

_doClientInitialization(s) ==
    Then(_write("ClientInit", PBool(s.shared)), expect("_handleServerInit", 24, <<>>))

\* _handleInitial(): max() of no version raises ValueError before anything is
\* deleted or written
_handleInitial(s) ==
    LET head == Take(s._packet, 12)
        norm == HEADER_TRANSLATE(head)
    IN  IF norm = HEADER
        THEN LET version_server == <<Int3(head, 5), Int3(head, 9)>>
                 le == {v \in SUPPORTED_SERVER_VERSIONS : VerLE(v, version_server)}
             IN  IF le = {} THEN Raise
                 ELSE LET best == VerMax(le)
                          version == IF VerLT(MAX_CLIENT_VERSION, best)
                                     THEN MAX_CLIENT_VERSION ELSE best
                      IN  Then(Then(Set([_packet |-> Drop(s._packet, 12),
                                         _handler |-> "_handleExpected",
                                         _version |-> version,
                                         _version_server |-> version_server]),
                                    _write("Banner", FmtBanner(version))),
                               IF VerLT(version, <<3, 7>>)
                               THEN expect("_handleAuth", 4, <<>>)
                               ELSE expect("_handleNumberSecurityTypes", 1, <<>>))
        ELSE IF ~StartsWith(HEADER, norm) THEN disconnect
        ELSE Outcome

_handleNumberSecurityTypes(s, block) ==
    LET num_types == U8(block, 1)
    IN  IF num_types # 0 THEN expect("_handleSecurityTypes", num_types, <<>>)
        ELSE expect("_handleConnFailed", 4, <<>>)

\* min() where the code has max()
SetMin(S) == CHOOSE m \in S : \A n \in S : m <= n
SetMax(S) == CHOOSE m \in S : \A n \in S : n <= m

_handleSecurityTypes(s, block) ==
    LET types == {block[i] : i \in DOMAIN block}
        valid_types == types \cap SUPPORTED_AUTHS
    IN  IF valid_types # {}
        THEN LET sec_type == SetMax(valid_types)
             IN  Then(_write("SecurityType", P8(sec_type)),
                      IF sec_type = AUTH_NONE
                      THEN IF VerLT(s._version, <<3, 8>>) THEN _doClientInitialization(s)
                           ELSE expect("_handleVNCAuthResult", 4, <<>>)
                      ELSE IF sec_type = AUTH_VNC_AUTHENTICATION
                      THEN expect("_handleVNCAuth", 16, <<>>)
                      ELSE expect("_handleDHAuth", 4, <<>>))
        ELSE disconnect

_handleAuth(s, block) ==
    LET auth == U32(block, 1)
    IN  IF auth = AUTH_INVALID THEN expect("_handleConnFailed", 4, <<>>)
        ELSE IF auth = AUTH_NONE THEN _doClientInitialization(s)
        ELSE IF auth = AUTH_VNC_AUTHENTICATION THEN expect("_handleVNCAuth", 16, <<>>)
        ELSE disconnect

_handleConnFailed(s, block) == expect("_handleConnMessage", U32(block, 1), <<>>)

_handleConnMessage(s, block) == disconnect

_handleVNCAuth(s, block) ==
    Then(Then(Set([_challenge |-> block]),
              vncRequestPassword(Merge([_challenge |-> block], s))),
         expect("_handleVNCAuthResult", 4, <<>>))

_handleDHAuth(s, block) ==
    Then(Set([generator |-> U16(block, 1), keyLen |-> U16(block, 3)]),
         expect("_handleDHAuthKey", U16(block, 3), <<>>))

_handleDHAuthKey(s, block) ==
    Then(Set([modulus |-> block]), expect("_handleDHAuthCert", s.keyLen, <<>>))

_handleDHAuthCert(s, block, secret) ==
    LET cred == ardRequestCredentials(s)
        s2 == Merge(cred.set, Merge([serverKey |-> block], s))
    IN  Then(Then(Then(Set([serverKey |-> block]), cred), _encryptArd(s2, secret)),
             expect("_handleVNCAuthResult", 4, <<>>))

\* a result handler that takes every result for 0
_handleVNCAuthResultAccepting(s, block) == _doClientInitialization(s)

_handleVNCAuthResult(s, block) ==
    LET result == U32(block, 1)
    IN  IF result = 0 THEN _doClientInitialization(s)
        ELSE IF result = 1
        THEN IF VerLT(s._version, <<3, 8>>)
             THEN Then(vncAuthFailed(AUTHENTICATION_FAILED), disconnect)
             ELSE expect("_handleAuthFailed", 4, <<>>)
        ELSE IF result = 2
        THEN IF VerLT(s._version, <<3, 8>>)
             THEN Then(vncAuthFailed(TOO_MANY_TRIES), disconnect)
             ELSE expect("_handleAuthFailed", 4, <<>>)
        ELSE disconnect

_handleAuthFailed(s, block) == expect("_handleAuthFailedMessage", U32(block, 1), <<>>)

\* a reason handler that closes without reporting
_handleAuthFailedMessageSilent(s, block) == disconnect

_handleAuthFailedMessage(s, block) == Then(vncAuthFailed(block), disconnect)

_handleServerInit(s, block) ==
    Then(Set([width |-> U16(block, 1), height |-> U16(block, 3),
              pixel_format |-> from_bytes(SubSeq(block, 5, 20))]),
         expect("_handleServerName", U32(block, 21), <<>>))

_handleServerName(s, block) ==
    Then(Then(Set([name |-> block]), vncConnectionMade(Merge([name |-> block], s))),
         expect("_handleConnection", 1, <<>>))

----------------------------------------------------------------------------
(* Callbacks of the framebuffer update.  The surface of VNCDoToolClient is   *)
(* an image of mode "RGB": its size and the set of its pixels <<x, y, c>>    *)
(* whose colour c = <<r, g, b>> is not black; screen = <<>> stands for None. *)
(* An Image is true whatever its size.  The cursor is an image of mode       *)
(* "RGB", its mask an image of mode "1": the size and the set of the pixels  *)
(* <<i, j>> whose bit is set; cursor = <<>> stands for None.                 *)

Black == <<0, 0, 0>>

\* Image.new("RGB", size, "black")
Image_new(size) == [size |-> size, px |-> {}]

\* the bytes the raw decoder reads for one pixel in each image mode
RawBytes(mode) ==
    CASE mode \in {"RGBX", "BGRX"} -> 4
      [] mode \in {"RGB", "BGR"} -> 3
      [] mode = "BGR;16" -> 2
      [] OTHER -> 0

\* the colour the raw decoder unpacks from the bytes p of one pixel
Unpack(mode, p) ==
    CASE mode \in {"RGB", "RGBX"} -> <<p[1], p[2], p[3]>>
      [] mode \in {"BGR", "BGRX"} -> <<p[3], p[2], p[1]>>
      [] mode = "BGR;16" ->
            LET pixel == p[1] + p[2] * 256
            IN  <<(((pixel \div 2048) % 32) * 255) \div 31,
                  (((pixel \div 32) % 64) * 255) \div 63,
                  ((pixel % 32) * 255) \div 31>>

\* the bytes of pixel (i, j) of a payload of rows of the given width
PixelBytes(data, width, n, i, j) == SubSeq(data, (j * width + i) * n + 1, (j * width + i + 1) * n)

\* Image.frombytes("RGB", size, data, "raw", mode), rows from the top
Image_frombytes(size, data, mode) ==
    [size |-> size,
     px |-> {p \in {<<i, j, Unpack(mode, PixelBytes(data, size[1], RawBytes(mode), i, j))>> :
                        i \in 0..(size[1] - 1), j \in 0..(size[2] - 1)} : p[3] # Black}]

\* the colour of pixel (x, y) of an image
getpixel(im, x, y) ==
    IF \E p \in im.px : p[1] = x /\ p[2] = y
    THEN (CHOOSE p \in im.px : p[1] = x /\ p[2] = y)[3]
    ELSE Black

\* a paste that lands every image at the origin
PasteAtOrigin(im, src, x, y) ==
    [im EXCEPT !.px = {p \in im.px : ~(p[1] < src.size[1] /\ p[2] < src.size[2])} \cup
                      {p \in src.px : p[1] < im.size[1] /\ p[2] < im.size[2]}]
\* im.paste(src, (x, y)): the part of src inside im replaces what was there
Image_paste(im, src, x, y) ==
    [im EXCEPT !.px =
        {p \in im.px : ~(x <= p[1] /\ p[1] < x + src.size[1] /\
                          y <= p[2] /\ p[2] < y + src.size[2])} \cup
        {q \in {<<p[1] + x, p[2] + y, p[3]>> : p \in src.px} :
            q[1] < im.size[1] /\ q[2] < im.size[2]}]

\* Image.frombytes("1", size, data): rows of bits from the highest bit on,
\* each row in whole bytes
Mask_frombytes(size, data) ==
    [size |-> size,
     bits |-> {p \in (0..(size[1] - 1)) \X (0..(size[2] - 1)) :
                  (data[p[2] * ((size[1] + 7) \div 8) + (p[1] \div 8) + 1] \div
                      (2 ^ (7 - (p[1] % 8)))) % 2 = 1}]
\* im.paste(src, (x, y), mask): the pixels of src whose bit of the mask is set
\* replace those of im, as far as they fall inside im
Image_pasteMasked(im, src, x, y, mask) ==
    LET covered == {q \in {<<p[1] + x, p[2] + y>> : p \in mask.bits} :
                       /\ 0 <= q[1] /\ q[1] < im.size[1]
                       /\ 0 <= q[2] /\ q[2] < im.size[2]}
    IN  [im EXCEPT !.px =
            {p \in im.px : <<p[1], p[2]>> \notin covered} \cup
            {r \in {<<q[1], q[2], getpixel(src, q[1] - x, q[2] - y)>> : q \in covered} :
                r[3] # Black}]

\* drawCursor()
drawCursor(s) ==
    IF s.cursor = <<>> \/ s.screen = <<>> THEN Outcome
    ELSE Set([screen |-> Image_pasteMasked(s.screen, s.cursor, s.x - s.cfocus[1],
                                           s.y - s.cfocus[2], s.cmask)])

\* what Image.frombytes() does for a size with a 0, which depends on the
\* Pillow installed: an image without pixels, or ValueError
EmptyImage == {"empty", "ValueError"}

\* updateCursor(): RFBClient's does nothing.  "self.cursor = None" for a width
\* or height of 0 is followed by the assignments of the other sizes
updateCursor(s, x, y, width, height, image, mask, empty) ==
    Then(Call("updateCursor", <<x, y, width, height, image, mask>>),
         IF s.cls # "VNCDoToolClient" \/ s.nocursor THEN Outcome
         ELSE IF (width = 0 \/ height = 0) /\ empty = "ValueError"
         THEN Then(Set([cursor |-> <<>>]), Raise)
         ELSE IF Len(image) < width * height * RawBytes(s.image_mode)
         THEN Raise
         ELSE LET new == [cursor |-> Image_frombytes(<<width, height>>, image, s.image_mode),
                          cmask |-> Mask_frombytes(<<width, height>>, mask),
                          cfocus |-> <<x, y>>]
              IN  Then(Set(new), drawCursor(Merge(new, s))))

\* VNCDoToolClient.mouseMove()
mouseMove(s, x, y) == Then(Set([x |-> x, y |-> y]), pointerEvent(x, y, s.buttons))

\* mouseDown(): "self.buttons |= 1 << (button - 1)"; a negative shift count
\* raises ValueError
mouseDown(s, button) ==
    IF button < 1 THEN Raise
    ELSE LET bit == 2 ^ (button - 1)
             buttons == IF (s.buttons \div bit) % 2 = 1 THEN s.buttons ELSE s.buttons + bit
         IN  Then(Set([buttons |-> buttons]), pointerEvent(s.x, s.y, buttons))
\* mouseUp(): "self.buttons &= ~(1 << (button - 1))"
mouseUp(s, button) ==
    IF button < 1 THEN Raise
    ELSE LET bit == 2 ^ (button - 1)
             buttons == IF (s.buttons \div bit) % 2 = 1 THEN s.buttons - bit ELSE s.buttons
         IN  Then(Set([buttons |-> buttons]), pointerEvent(s.x, s.y, buttons))
\* mousePress()
mousePress(s, button) ==
    LET down == mouseDown(s, button)
    IN  Then(down, mouseUp(Merge(down.set, s), button))

beginUpdate == Call("beginUpdate", <<>>)

\* commitUpdate(): VNCDoToolClient's sets the event updateCommited
commitUpdate(s, rectangles) ==
    Then(Call("commitUpdate", rectangles),
         IF s.cls = "VNCDoToolClient" THEN Set([updateCommited |-> TRUE]) ELSE Outcome)

\* updateRectangle(): RFBClient's does nothing; Image.frombytes() raises
\* ValueError when data is short of the size
updateRectangle(s, x, y, width, height, data) ==
    Then(Call("updateRectangle", <<x, y, width, height, data>>),
         IF s.cls # "VNCDoToolClient" \/ data = <<>> THEN Outcome
         ELSE LET size == <<width, height>>
                  moves == IF s.screen # <<>> /\
                              (size[1] # s.screen.size[1] \/ size[2] # s.screen.size[2])
                           THEN Then(mouseMove(s, width, height), mouseMove(s, 0, 0))
                           ELSE Outcome
                  update == Image_frombytes(size, data, s.image_mode)
                  new_size == <<Max(x + width, s.screen.size[1]),
                                Max(y + height, s.screen.size[2])>>
                  screen ==
                      IF s.screen = <<>> THEN update
                      ELSE IF s.screen.size[1] < x + width \/ s.screen.size[2] < y + height
                      THEN Image_paste(Image_paste(Image_new(new_size), s.screen, 0, 0),
                                       update, x, y)
                      ELSE Image_paste(s.screen, update, x, y)
              IN  Then(moves,
                       IF Len(data) < width * height * RawBytes(s.image_mode) THEN Raise
                       ELSE Then(Set([screen |-> screen]),
                                 drawCursor(Merge([screen |-> screen],
                                                  Merge(moves.set, s))))))

\* color * width * height
Repeat(color, n) == [i \in 1..(Len(color) * n) |-> color[((i - 1) % Len(color)) + 1]]

\* fillRectangle(): neither class overrides the fallback
\* (color = None: "color * width * height" raises TypeError)
fillRectangle(s, x, y, width, height, color) ==
    Then(Call("fillRectangle", <<x, y, width, height, color>>),
         IF color = None THEN Raise
         ELSE updateRectangle(s, x, y, width, height, Repeat(color, width * height)))

\* copyRectangle(): neither class overrides the empty method
copyRectangle(s, srcx, srcy, x, y, width, height) ==
    Call("copyRectangle", <<srcx, srcy, x, y, width, height>>)

MAX_DESKTOP_SIZE == 65536
\* an updateDesktopSize() that never shrinks the surface
updateDesktopSizeGrowing(s, width, height) ==
    Then(Call("updateDesktopSize", <<width, height>>),
         IF s.cls # "VNCDoToolClient" THEN Outcome
         ELSE IF s.screen = <<>> THEN Set([screen |-> Image_new(<<width, height>>)])
         ELSE Set([screen |-> Image_paste(Image_new(<<Max(width, s.screen.size[1]),
                                                       Max(height, s.screen.size[2])>>),
                                          s.screen, 0, 0)]))
\* updateDesktopSize(): RFBClient's does nothing
updateDesktopSize(s, width, height) ==
    Then(Call("updateDesktopSize", <<width, height>>),
         IF s.cls # "VNCDoToolClient" THEN Outcome
         ELSE IF ~(0 <= width /\ width < MAX_DESKTOP_SIZE /\
                   0 <= height /\ height < MAX_DESKTOP_SIZE) THEN Raise
         ELSE LET new_screen == Image_new(<<width, height>>)
              IN  Set([screen |-> IF s.screen # <<>>
                                  THEN Image_paste(new_screen, s.screen, 0, 0)
                                  ELSE new_screen]))

----------------------------------------------------------------------------
(* Server to client messages *)

MSG_FRAMEBUFFER_UPDATE == 0
MSG_SET_COLOUR_MAP_ENTRIES == 1
MSG_BELL == 2
MSG_SERVER_CUT_TEXT == 3
MSG_QEMU_SERVER_MESSAGE == 255

_handleConnection(s, block) ==
    LET msgid == U8(block, 1)
    IN  IF msgid = MSG_FRAMEBUFFER_UPDATE THEN expect("_handleFramebufferUpdate", 3, <<>>)
        ELSE IF msgid = MSG_SET_COLOUR_MAP_ENTRIES
        THEN expect("_handleColourMapEntries", 5, <<>>)
        ELSE IF msgid = MSG_BELL
        THEN Then(Call("bell", <<>>), expect("_handleConnection", 1, <<>>))
        ELSE IF msgid = MSG_SERVER_CUT_TEXT THEN expect("_handleServerCutText", 7, <<>>)
        ELSE IF msgid = MSG_QEMU_SERVER_MESSAGE
        THEN expect("_handleQEMUServerMessage", 1, <<>>)
        ELSE disconnect

_handleQEMUServerMessage(s, block) ==
    IF U8(block, 1) = 1 THEN expect("_handleQEMUAudioServerMessage", 2, <<>>)
    ELSE disconnect

_handleQEMUAudioServerMessage(s, block) ==
    LET op == U16(block, 1)
    IN  IF op = 0
        THEN Then(Call("audio_stream_end", <<>>), expect("_handleConnection", 1, <<>>))
        ELSE IF op = 1
        THEN Then(Call("audio_stream_begin", <<>>), expect("_handleConnection", 1, <<>>))
        ELSE IF op = 2 THEN expect("_handleQEMUAudioServerProviderMessage", 4, <<>>)
        ELSE disconnect

_handleQEMUAudioServerProviderMessage(s, block) ==
    expect("_handleQEMUAudioServerStreamMessage", U32(block, 1), <<U32(block, 1)>>)

_handleQEMUAudioServerStreamMessage(s, block) ==
    Then(Call("audio_stream_data", <<s._expected_args[1], block>>),
         expect("_handleConnection", 1, <<>>))

_handleColourMapEntries(s, block) ==
    expect("_handleColourMapEntriesValue", 6 * U16(block, 4), <<U16(block, 2)>>)

_handleColourMapEntriesValue(s, block) ==
    LET colors == [i \in 1..(Len(block) \div 6) |->
                      <<U16(block, 6 * i - 5), U16(block, 6 * i - 3), U16(block, 6 * i - 1)>>]
    IN  Then(Call("set_color_map", <<s._expected_args[1], colors>>),
             expect("_handleConnection", 1, <<>>))

_handleServerCutText(s, block) == expect("_handleServerCutTextValue", U32(block, 4), <<>>)

\* block.decode("iso-8859-1"): every byte is the character of the same code
_handleServerCutTextValue(s, block) ==
    Then(Call("copy_text", block), expect("_handleConnection", 1, <<>>))

\* a _doConnection() that commits whether or not a position was recorded
_doConnectionCommitting(s) ==
    IF s.rectangles # 0 THEN expect("_handleRectangle", 12, <<>>)
    ELSE Then(commitUpdate(s, s.rectanglePos), expect("_handleConnection", 1, <<>>))

\* _doConnection() on the attributes s
_doConnection(s) ==
    IF s.rectangles # 0 THEN expect("_handleRectangle", 12, <<>>)
    ELSE Then(IF s.rectanglePos # <<>> THEN commitUpdate(s, s.rectanglePos) ELSE Outcome,
              expect("_handleConnection", 1, <<>>))

\* o, and then _doConnection() on the attributes o leaves
ThenDoConnection(s, o) == Then(o, _doConnection(Merge(o.set, s)))

_handleFramebufferUpdate(s, block) ==
    ThenDoConnection(s, Then(Set([rectangles |-> U16(block, 2), rectanglePos |-> <<>>]),
                             beginUpdate))

\* _doNextHextileSubrect(); NoCoord is the None passed for tx and ty
NoCoord == -1
_doNextHextileSubrect(s, bg, color, x, y, width, height, tx, ty) ==
    LET ntx == IF tx = NoCoord THEN x ELSE IF tx + 16 >= x + width THEN x ELSE tx + 16
        nty == IF tx = NoCoord THEN y ELSE IF tx + 16 >= x + width THEN ty + 16 ELSE ty
    IN  IF nty >= y + height THEN _doConnection(s)
        ELSE expect("_handleDecodeHextile", 1, <<bg, color, x, y, width, height, ntx, nty>>)

_handleDecodeDesktopSize(s, width, height) ==
    ThenDoConnection(s, updateDesktopSize(s, width, height))

\* a count that LastRect leaves as it is
RectanglesLeftUnchanged(s, encoding) == s.rectangles
\* _handleRectangle(): "if encoding == Encoding.PSEUDO_LAST_RECT: self.rectangles = 0"
RectanglesLeft(s, encoding) == IF encoding = ENC_PSEUDO_LAST_RECT THEN 0 ELSE s.rectangles

_handleRectangle(s, block) ==
    LET x == U16(block, 1)
        y == U16(block, 3)
        width == U16(block, 5)
        height == U16(block, 7)
        encoding == S32(block, 9)
        rectangles == RectanglesLeft(s, encoding)
        args == <<x, y, width, height>>
        counted == Set([rectangles |-> rectangles - 1,
                        rectanglePos |-> Append(s.rectanglePos, args)])
        s2 == Merge(counted.set, s)
        uncounted(enc) ==
            Set([negotiated_encodings |-> s.negotiated_encodings \cup {enc},
                 rectangles |-> rectangles - 1, rectanglePos |-> s.rectanglePos])
    IN  IF rectangles # 0
        THEN CASE encoding = ENC_COPY_RECTANGLE ->
                    Then(counted, expect("_handleDecodeCopyrect", 4, args))
               [] encoding = ENC_RAW ->
                    Then(counted, expect("_handleDecodeRAW",
                                         width * height * bypp(s.pixel_format), args))
               [] encoding = ENC_HEXTILE ->
                    Then(counted, _doNextHextileSubrect(s2, None, None, x, y, width,
                                                        height, NoCoord, NoCoord))
               [] encoding = ENC_CORRE ->
                    Then(counted, expect("_handleDecodeCORRE",
                                         4 + bypp(s.pixel_format), args))
               [] encoding = ENC_RRE ->
                    Then(counted, expect("_handleDecodeRRE",
                                         4 + bypp(s.pixel_format), args))
               [] encoding = ENC_ZRLE ->
                    Then(counted, expect("_handleDecodeZRLE", 4, args))
               [] encoding = ENC_PSEUDO_CURSOR ->
                    Then(counted, expect("_handleDecodePsuedoCursor",
                                         width * height * bypp(s.pixel_format) +
                                         ((width + 7) \div 8) * height, args))
               [] encoding = ENC_PSEUDO_DESKTOP_SIZE ->
                    Then(counted, _handleDecodeDesktopSize(s2, width, height))
               [] encoding = ENC_PSEUDO_QEMU_EXTENDED_KEY_EVENT ->
                    ThenDoConnection(s, uncounted(ENC_PSEUDO_QEMU_EXTENDED_KEY_EVENT))
               [] encoding = ENC_PSEUDO_QEMU_AUDIO ->
                    ThenDoConnection(s, uncounted(ENC_PSEUDO_QEMU_AUDIO))
               [] OTHER -> Then(counted, disconnect)
        ELSE ThenDoConnection(s, Set([rectangles |-> rectangles]))

_handleDecodeRAW(s, block) ==
    LET a == s._expected_args
    IN  ThenDoConnection(s, updateRectangle(s, a[1], a[2], a[3], a[4], block))

_handleDecodeCopyrect(s, block) ==
    LET a == s._expected_args
    IN  ThenDoConnection(s, copyRectangle(s, U16(block, 1), U16(block, 3),
                                          a[1], a[2], a[3], a[4]))

_handleDecodeRRE(s, block) ==
    LET a == s._expected_args
        subrects == U32(block, 1)
        fill == fillRectangle(s, a[1], a[2], a[3], a[4], Drop(block, 4))
    IN  IF subrects # 0
        THEN Then(fill, expect("_handleRRESubRectangles",
                               (8 + bypp(s.pixel_format)) * subrects, <<a[1], a[2]>>))
        ELSE ThenDoConnection(s, fill)

\* _handleRRESubRectangles(): the while loop from byte offset pos of the block
RECURSIVE RRESubRectangles(_, _, _)
RRESubRectangles(s, block, pos) ==
    LET n == bypp(s.pixel_format)
        a == s._expected_args
        fill == fillRectangle(s, a[1] + U16(block, pos + n + 1), a[2] + U16(block, pos + n + 3),
                              U16(block, pos + n + 5), U16(block, pos + n + 7),
                              SubSeq(block, pos + 1, pos + n))
    IN  IF pos < Len(block)
        THEN Then(fill, RRESubRectangles(Merge(fill.set, s), block, pos + n + 8))
        ELSE Outcome

_handleRRESubRectangles(s, block) == ThenDoConnection(s, RRESubRectangles(s, block, 0))

_handleDecodeCORRE(s, block) ==
    LET a == s._expected_args
        subrects == U32(block, 1)
        fill == fillRectangle(s, a[1], a[2], a[3], a[4], Drop(block, 4))
    IN  IF subrects # 0
        THEN Then(fill, expect("_handleDecodeCORRERectangles",
                               (4 + bypp(s.pixel_format)) * subrects, <<a[1], a[2]>>))
        ELSE ThenDoConnection(s, fill)

\* _handleDecodeCORRERectangles(): format = "!{self.bypp}sBBBB" is no f-string, so
\* the first unpack(format, ...) raises struct.error
_handleDecodeCORRERectangles(s, block) ==
    LET sz == bypp(s.pixel_format) + 4
    IN  IF 0 < sz THEN Raise ELSE _doConnection(s)

\* _handleDecodePsuedoCursor()
_handleDecodePsuedoCursor(s, block, empty) ==
    LET a == s._expected_args
        split == a[3] * a[4] * bypp(s.pixel_format)
    IN  ThenDoConnection(s, updateCursor(s, a[1], a[2], a[3], a[4], Take(block, split),
                                         Drop(block, split), empty))

----------------------------------------------------------------------------
(* Hextile *)

HEXTILE_RAW == 1
HEXTILE_BACKGROUND_SPECIFIED == 2
HEXTILE_FOREGROUND_SPECIFIED == 4
HEXTILE_ANY_SUBRECTS == 8
HEXTILE_SUBRECTS_COLORED == 16
\* subencoding & flag
Flag(subencoding, flag) == (subencoding \div flag) % 2 = 1

\* _handleDecodeHextile(): "tw = th = 16; if x + width - tx < 16: tw = x + width - tx"
TileSize(from, to) == IF to - from < 16 THEN to - from ELSE 16

_handleDecodeHextile(s, block) ==
    LET a == s._expected_args
        bg == a[1]
        color == a[2]
        x == a[3]
        y == a[4]
        width == a[5]
        height == a[6]
        tx == a[7]
        ty == a[8]
        subencoding == block[1]
        tw == TileSize(tx, x + width)
        th == TileSize(ty, y + height)
        n == bypp(s.pixel_format)
        numbytes == (IF Flag(subencoding, HEXTILE_BACKGROUND_SPECIFIED) THEN n ELSE 0) +
                    (IF Flag(subencoding, HEXTILE_FOREGROUND_SPECIFIED) THEN n ELSE 0) +
                    (IF Flag(subencoding, HEXTILE_ANY_SUBRECTS) THEN 1 ELSE 0)
        fill == fillRectangle(s, tx, ty, tw, th, bg)
    IN  IF Flag(subencoding, HEXTILE_RAW)
        THEN expect("_handleDecodeHextileRAW", tw * th * n,
                    <<bg, color, x, y, width, height, tx, ty, tw, th>>)
        ELSE IF numbytes # 0
        THEN expect("_handleDecodeHextileSubrect", numbytes,
                    <<subencoding, bg, color, x, y, width, height, tx, ty, tw, th>>)
        ELSE Then(fill, _doNextHextileSubrect(Merge(fill.set, s), bg, color, x, y, width,
                                              height, tx, ty))

_handleDecodeHextileSubrect(s, block) ==
    LET a == s._expected_args
        subencoding == a[1]
        n == bypp(s.pixel_format)
        hasBG == Flag(subencoding, HEXTILE_BACKGROUND_SPECIFIED)
        hasFG == Flag(subencoding, HEXTILE_FOREGROUND_SPECIFIED)
        bg == IF hasBG THEN Take(block, n) ELSE a[2]
        pos1 == IF hasBG THEN n ELSE 0
        color == IF hasFG THEN SubSeq(block, pos1 + 1, pos1 + n) ELSE a[3]
        pos == IF hasFG THEN pos1 + n ELSE pos1
        subrects == IF Flag(subencoding, HEXTILE_ANY_SUBRECTS) THEN block[pos + 1] ELSE 0
        fill == fillRectangle(s, a[8], a[9], a[10], a[11], bg)
        args == <<bg, color, subrects, a[4], a[5], a[6], a[7], a[8], a[9], a[10], a[11]>>
    IN  Then(fill,
             IF subrects # 0
             THEN IF Flag(subencoding, HEXTILE_SUBRECTS_COLORED)
                  THEN expect("_handleDecodeHextileSubrectsColoured", (n + 2) * subrects, args)
                  ELSE expect("_handleDecodeHextileSubrectsFG", 2 * subrects, args)
             ELSE _doNextHextileSubrect(Merge(fill.set, s), bg, color, a[4], a[5], a[6],
                                        a[7], a[8], a[9]))

_handleDecodeHextileRAW(s, block) ==
    LET a == s._expected_args
        update == updateRectangle(s, a[7], a[8], a[9], a[10], block)
    IN  Then(update, _doNextHextileSubrect(Merge(update.set, s), a[1], a[2], a[3], a[4],
                                           a[5], a[6], a[7], a[8]))

\* the while loops of the two sub-rectangle handlers from byte offset pos: n
\* bytes of colour, or the colour given, then xy and wh
RECURSIVE HextileSubrects(_, _, _, _, _)
HextileSubrects(s, block, pos, n, color) ==
    LET a == s._expected_args
        xy == block[pos + n + 1]
        wh == block[pos + n + 2]
        fill == fillRectangle(s, a[8] + (xy \div 16), a[9] + (xy % 16),
                              (wh \div 16) + 1, (wh % 16) + 1,
                              IF n = 0 THEN color ELSE SubSeq(block, pos + 1, pos + n))
    IN  IF pos < Len(block)
        THEN Then(fill, HextileSubrects(Merge(fill.set, s), block, pos + n + 2, n, color))
        ELSE Outcome

\* _handleDecodeHextileSubrectsColoured(): the colour handed on is the last one
_handleDecodeHextileSubrectsColoured(s, block) ==
    LET a == s._expected_args
        n == bypp(s.pixel_format)
        fills == HextileSubrects(s, block, 0, n, a[2])
        color == SubSeq(block, Len(block) - (n + 2) + 1, Len(block) - 2)
    IN  Then(fills, _doNextHextileSubrect(Merge(fills.set, s), a[1], color, a[4], a[5],
                                          a[6], a[7], a[8], a[9]))

_handleDecodeHextileSubrectsFG(s, block) ==
    LET a == s._expected_args
        fills == HextileSubrects(s, block, 0, 0, a[2])
    IN  Then(fills, _doNextHextileSubrect(Merge(fills.set, s), a[1], a[2], a[4], a[5],
                                          a[6], a[7], a[8], a[9]))

----------------------------------------------------------------------------
(* ZRLE *)

\* self._zlib_stream.decompress(block): the stream is "new" until its two
\* header bytes are read.  The model inflates stored blocks (deflate without
\* compression), which is how every scenario deflates; header bytes that fail
\* the check, a block of another type and lengths that do not match are
\* zlib.error here.
RECURSIVE InflateBlocks(_, _)
InflateBlocks(block, pos) ==
    LET len == block[pos + 2] + 256 * block[pos + 3]
        nlen == block[pos + 4] + 256 * block[pos + 5]
        rest == InflateBlocks(block, pos + 5 + len)
    IN  IF pos >= Len(block) THEN [ok |-> TRUE, data |-> <<>>]
        ELSE IF pos + 5 > Len(block) \/ block[pos + 1] # 0 THEN [ok |-> FALSE, data |-> <<>>]
        ELSE IF len + nlen # 65535 \/ pos + 5 + len > Len(block)
        THEN [ok |-> FALSE, data |-> <<>>]
        ELSE [ok |-> rest.ok, data |-> SubSeq(block, pos + 6, pos + 5 + len) \o rest.data]
decompress(zs, block) ==
    IF block = <<>> THEN [ok |-> TRUE, data |-> <<>>, zs |-> zs]
    ELSE IF zs = "new"
    THEN IF Len(block) < 2 \/ block[1] % 16 # 8 \/ (block[1] * 256 + block[2]) % 31 # 0
         THEN [ok |-> FALSE, data |-> <<>>, zs |-> zs]
         ELSE [ok |-> InflateBlocks(block, 2).ok, data |-> InflateBlocks(block, 2).data,
               zs |-> "open"]
    ELSE [ok |-> InflateBlocks(block, 0).ok, data |-> InflateBlocks(block, 0).data,
          zs |-> "open"]

\* cpixel(): three bytes and 0xFF
cpixel(data, pos) == <<data[pos + 1], data[pos + 2], data[pos + 3], 255>>

\* what the decoding of a tile or of a part of it gives: the bytes for
\* pixel_data, the offset reached in data, the runs read as <<offset of the
\* first run byte, pixels, offset after the last>>; ok is false if an
\* exception ended it (data at its end, an index beyond the palette, too
\* many pixels)
Failed == [ok |-> FALSE, pixel_data |-> <<>>, pos |-> 0, runs |-> <<>>]
Decoded(pixel_data, pos, runs) ==
    [ok |-> TRUE, pixel_data |-> pixel_data, pos |-> pos, runs |-> runs]
\* part and, unless it failed, what follows it
Follow(part, rest) ==
    IF ~part.ok THEN part
    ELSE [ok |-> rest.ok, pixel_data |-> part.pixel_data \o rest.pixel_data,
          pos |-> rest.pos, runs |-> part.runs \o rest.runs]

\* a run length that is the first run byte alone
do_rleFirstByte(data, pos) ==
    IF pos >= Len(data) THEN [ok |-> FALSE, run_length |-> 0, pos |-> pos]
    ELSE [ok |-> TRUE, run_length |-> data[pos + 1], pos |-> pos + 1]
\* do_rle(): run_length is the sum of the bytes read, which end with the
\* first one that is not 255; the function returns run_length + 1
RECURSIVE do_rle(_, _)
do_rle(data, pos) ==
    IF pos >= Len(data) THEN [ok |-> FALSE, run_length |-> 0, pos |-> pos]
    ELSE IF data[pos + 1] = 255
    THEN LET more == do_rle(data, pos + 1)
         IN  [ok |-> more.ok, run_length |-> 255 + more.run_length, pos |-> more.pos]
    ELSE [ok |-> TRUE, run_length |-> data[pos + 1], pos |-> pos + 1]
\* pixel_data.extend(pixel * (run_length + 1)) of the run whose bytes start at pos
Run(data, pos, pixel) ==
    LET r == do_rle(data, pos)
    IN  IF ~r.ok THEN Failed
        ELSE Decoded(Repeat(pixel, r.run_length + 1), r.pos,
                     << <<pos, r.run_length + 1, r.pos>> >>)

\* plain RLE: "while num_pixels < pixels_in_tile", then the check for too many
RECURSIVE PlainRLE(_, _, _, _)
PlainRLE(data, pos, num_pixels, pixels_in_tile) ==
    IF num_pixels >= pixels_in_tile
    THEN IF num_pixels # pixels_in_tile THEN Failed ELSE Decoded(<<>>, pos, <<>>)
    ELSE IF pos + 3 > Len(data) THEN Failed
    ELSE LET run == Run(data, pos + 3, cpixel(data, pos))
         IN  IF ~run.ok THEN Failed
             ELSE Follow(run, PlainRLE(data, run.pos, num_pixels + run.runs[1][2],
                                       pixels_in_tile))

\* the palette: palette_size cpixels
Palette(data, pos, palette_size) == [i \in 1..palette_size |-> cpixel(data, pos + 3 * (i - 1))]

\* palette RLE: an index with the high bit starts a run
RECURSIVE PaletteRLE(_, _, _, _, _)
PaletteRLE(data, pos, palette, num_pixels, pixels_in_tile) ==
    IF num_pixels >= pixels_in_tile
    THEN IF num_pixels # pixels_in_tile THEN Failed ELSE Decoded(<<>>, pos, <<>>)
    ELSE IF pos >= Len(data) THEN Failed
    ELSE LET palette_index == data[pos + 1] % 128
             run == Run(data, pos + 1, palette[palette_index + 1])
         IN  IF palette_index >= Len(palette) THEN Failed
             ELSE IF data[pos + 1] >= 128
             THEN IF ~run.ok THEN Failed
                  ELSE Follow(run, PaletteRLE(data, run.pos, palette,
                                              num_pixels + run.runs[1][2], pixels_in_tile))
             ELSE Follow(Decoded(palette[palette_index + 1], pos + 1, <<>>),
                         PaletteRLE(data, pos + 1, palette, num_pixels + 1, pixels_in_tile))

\* index number k of a packing that starts every row of the tile on a new
\* byte and leaves the low bits of the last byte of a row unused
PackedInRows(data, pos, bits, k, tw) ==
    LET row == k \div tw
        col == k % tw
    IN  (data[pos + row * ((tw * bits + 7) \div 8) + ((col * bits) \div 8) + 1] \div
            (2 ^ (8 - bits - ((col * bits) % 8)))) % (2 ^ bits)
\* _zrle_next_bit(), _zrle_next_dibit(), _zrle_next_nibble(): index number k
\* (from 0) of the tile; num_pixels counts through the whole tile, a byte is
\* read whenever the one before has given its 8 / bits indices
PackedIndex(data, pos, bits, k, tw) ==
    (data[pos + ((k * bits) \div 8) + 1] \div (2 ^ (8 - bits - ((k * bits) % 8)))) %
        (2 ^ bits)
\* the bits of an index for each palette size
IndexBits(palette_size) ==
    IF palette_size = 2 THEN 1 ELSE IF palette_size \in {3, 4} THEN 2 ELSE 4
\* packed palette: the generator ends when num_pixels == pixels_in_tile, which
\* it never does for a tile without pixels: it then reads to the end of data
Packed(data, pos, palette, tw, th) ==
    LET bits == IndexBits(Len(palette))
        pixels_in_tile == tw * th
        bytes == (pixels_in_tile * bits + 7) \div 8
        index(k) == PackedIndex(data, pos, bits, k, tw)
    IN  IF pixels_in_tile <= 0 \/ pos + bytes > Len(data) THEN Failed
        ELSE IF \E k \in 0..(pixels_in_tile - 1) : index(k) >= Len(palette) THEN Failed
        ELSE Decoded(Flatten([k \in 1..pixels_in_tile |-> palette[index(k - 1) + 1]]),
                     pos + bytes, <<>>)

\* the decoding of one tile from the byte after its subencoding
ZRLETile(data, pos, subencoding, tw, th) ==
    LET pixels_in_tile == tw * th
        palette_size == subencoding % 128
        palette == Palette(data, pos, palette_size)
    IN  IF subencoding >= 128
        THEN IF palette_size = 0 THEN PlainRLE(data, pos, 0, pixels_in_tile)
             ELSE IF pos + 3 * palette_size > Len(data) THEN Failed
             ELSE PaletteRLE(data, pos + 3 * palette_size, palette, 0, pixels_in_tile)
        ELSE IF palette_size = 0
        THEN IF pos + 3 * Max(pixels_in_tile, 0) > Len(data) THEN Failed
             ELSE Decoded(Flatten([k \in 1..pixels_in_tile |-> cpixel(data, pos + 3 * (k - 1))]),
                          pos + 3 * Max(pixels_in_tile, 0), <<>>)
        ELSE IF palette_size = 1
        THEN IF pos + 3 > Len(data) THEN Failed
             ELSE Decoded(cpixel(data, pos), pos + 3, <<>>)
        ELSE IF palette_size > 16 THEN Failed
        ELSE IF pos + 3 * palette_size > Len(data) THEN Failed
        ELSE Packed(data, pos + 3 * palette_size, palette, tw, th)

\* _handleDecodeZRLEdata(): "for subencoding in it" from offset pos with the
\* tile at (tx, ty): the tiles decoded, the last one being the one that failed
RECURSIVE ZRLETiles(_, _, _, _, _)
ZRLETiles(data, pos, a, tx, ty) ==
    LET tw == IF a[1] + a[3] - tx < 64 THEN a[1] + a[3] - tx ELSE 64
        th == IF a[2] + a[4] - ty < 64 THEN a[2] + a[4] - ty ELSE 64
        tile == ZRLETile(data, pos + 1, data[pos + 1], tw, th)
        wrap == tx + 64 >= a[1] + a[3]
    IN  IF pos >= Len(data) THEN <<>>
        ELSE << [subencoding |-> data[pos + 1], tx |-> tx, ty |-> ty, tw |-> tw, th |-> th,
                 start |-> pos + 1, ok |-> tile.ok, pixel_data |-> tile.pixel_data,
                 pos |-> tile.pos, runs |-> tile.runs] >> \o
             (IF tile.ok
              THEN ZRLETiles(data, tile.pos, a, IF wrap THEN a[1] ELSE tx + 64,
                             IF wrap THEN ty + 64 ELSE ty)
              ELSE <<>>)

\* the callbacks for the tiles from number k on: fillRectangle() for a tile of
\* one colour, updateRectangle() for the others
RECURSIVE ZRLEUpdates(_, _, _)
ZRLEUpdates(s, tiles, k) ==
    LET tile == tiles[k]
        update == IF tile.subencoding = 1
                  THEN fillRectangle(s, tile.tx, tile.ty, tile.tw, tile.th, tile.pixel_data)
                  ELSE updateRectangle(s, tile.tx, tile.ty, tile.tw, tile.th, tile.pixel_data)
    IN  IF k > Len(tiles) THEN Outcome
        ELSE IF ~tile.ok THEN Raise
        ELSE Then(update, ZRLEUpdates(Merge(update.set, s), tiles, k + 1))

_handleDecodeZRLE(s, block) == expect("_handleDecodeZRLEdata", U32(block, 1), s._expected_args)

_handleDecodeZRLEdata(s, block) ==
    LET a == s._expected_args
        inflated == decompress(s._zlib_stream, block)
        updates == ZRLEUpdates(s, ZRLETiles(inflated.data, 0, a, a[1], a[2]), 1)
    IN  IF ~inflated.ok THEN Raise
        ELSE Then(Set([_zlib_stream |-> inflated.zs]), ThenDoConnection(s, updates))

----------------------------------------------------------------------------
(* VNCDoToolClient: keyboard and pointer operations of the caller *)

\* A character is a string of length one, a str the sequence of its
\* characters.  The printable ASCII characters, from code 32 on; "grave" is
\* the grave accent, which no string of TLA+ holds
ASCII ==
    <<" ", "!", "\"", "#", "$", "%", "&", "'", "(", ")", "*", "+", ",", "-", ".", "/",
      "0", "1", "2", "3", "4", "5", "6", "7", "8", "9", ":", ";", "<", "=", ">", "?",
      "@", "A", "B", "C", "D", "E", "F", "G", "H", "I", "J", "K", "L", "M", "N", "O",
      "P", "Q", "R", "S", "T", "U", "V", "W", "X", "Y", "Z", "[", "\\", "]", "^", "_",
      "grave", "a", "b", "c", "d", "e", "f", "g", "h", "i", "j", "k", "l", "m", "n",
      "o",
      "p", "q", "r", "s", "t", "u", "v", "w", "x", "y", "z", "{", "|", "}", "~">>
ord(c) == 31 + (CHOOSE i \in DOMAIN ASCII : ASCII[i] = c)

\* rfb.py: the keysyms KEYMAP names
KEY_BackSpace == 65288
KEY_Tab == 65289
KEY_Return == 65293
KEY_Escape == 65307
KEY_Insert == 65379
KEY_Delete == 65535
KEY_Home == 65360
KEY_End == 65367
KEY_PageUp == 65365
KEY_PageDown == 65366
KEY_Left == 65361
KEY_Up == 65362
KEY_Right == 65363
KEY_Down == 65364
KEY_F1 == 65470
KEY_F2 == 65471
KEY_F3 == 65472
KEY_F4 == 65473
KEY_F5 == 65474
KEY_F6 == 65475
KEY_F7 == 65476
KEY_F8 == 65477
KEY_F9 == 65478
KEY_F10 == 65479
KEY_F11 == 65480
KEY_F12 == 65481
KEY_F13 == 65482
KEY_F14 == 65483
KEY_F15 == 65484
KEY_F16 == 65485
KEY_F17 == 65486
KEY_F18 == 65487
KEY_F19 == 65488
KEY_F20 == 65489
KEY_ShiftLeft == 65505
KEY_ShiftRight == 65506
KEY_ControlLeft == 65507
KEY_ControlRight == 65508
KEY_MetaLeft == 65511
KEY_MetaRight == 65512
KEY_AltLeft == 65513
KEY_AltRight == 65514
KEY_Scroll_Lock == 65300
KEY_Sys_Req == 65301
KEY_Num_Lock == 65407
KEY_Caps_Lock == 65509
KEY_Pause == 65299
KEY_Super_L == 65515
KEY_Super_R == 65516
KEY_Hyper_L == 65517
KEY_Hyper_R == 65518
KEY_KP_0 == 65456
KEY_KP_1 == 65457
KEY_KP_2 == 65458
KEY_KP_3 == 65459
KEY_KP_4 == 65460
KEY_KP_5 == 65461
KEY_KP_6 == 65462
KEY_KP_7 == 65463
KEY_KP_8 == 65464
KEY_KP_9 == 65465
KEY_KP_Enter == 65421
KEY_ForwardSlash == 47
KEY_BackSlash == 92
KEY_SpaceBar == 32

\* client.py: KEYMAP
KEYMAP ==
    (<<"b", "s", "p">> :> KEY_BackSpace) @@
    (<<"t", "a", "b">> :> KEY_Tab) @@
    (<<"r", "e", "t", "u", "r", "n">> :> KEY_Return) @@
    (<<"e", "n", "t", "e", "r">> :> KEY_Return) @@
    (<<"e", "s", "c">> :> KEY_Escape) @@
    (<<"i", "n", "s">> :> KEY_Insert) @@
    (<<"d", "e", "l", "e", "t", "e">> :> KEY_Delete) @@
    (<<"d", "e", "l">> :> KEY_Delete) @@
    (<<"h", "o", "m", "e">> :> KEY_Home) @@
    (<<"e", "n", "d">> :> KEY_End) @@
    (<<"p", "g", "u", "p">> :> KEY_PageUp) @@
    (<<"p", "g", "d", "n">> :> KEY_PageDown) @@
    (<<"l", "e", "f", "t">> :> KEY_Left) @@
    (<<"u", "p">> :> KEY_Up) @@
    (<<"r", "i", "g", "h", "t">> :> KEY_Right) @@
    (<<"d", "o", "w", "n">> :> KEY_Down) @@
    (<<"s", "l", "a", "s", "h">> :> KEY_BackSlash) @@
    (<<"b", "s", "l", "a", "s", "h">> :> KEY_BackSlash) @@
    (<<"f", "s", "l", "a", "s", "h">> :> KEY_ForwardSlash) @@
    (<<"s", "p", "a", "c", "e", "b", "a", "r">> :> KEY_SpaceBar) @@
    (<<"s", "p", "a", "c", "e">> :> KEY_SpaceBar) @@
    (<<"s", "b">> :> KEY_SpaceBar) @@
    (<<"f", "1">> :> KEY_F1) @@
    (<<"f", "2">> :> KEY_F2) @@
    (<<"f", "3">> :> KEY_F3) @@
    (<<"f", "4">> :> KEY_F4) @@
    (<<"f", "5">> :> KEY_F5) @@
    (<<"f", "6">> :> KEY_F6) @@
    (<<"f", "7">> :> KEY_F7) @@
    (<<"f", "8">> :> KEY_F8) @@
    (<<"f", "9">> :> KEY_F9) @@
    (<<"f", "1", "0">> :> KEY_F10) @@
    (<<"f", "1", "1">> :> KEY_F11) @@
    (<<"f", "1", "2">> :> KEY_F12) @@
    (<<"f", "1", "3">> :> KEY_F13) @@
    (<<"f", "1", "4">> :> KEY_F14) @@
    (<<"f", "1", "5">> :> KEY_F15) @@
    (<<"f", "1", "6">> :> KEY_F16) @@
    (<<"f", "1", "7">> :> KEY_F17) @@
    (<<"f", "1", "8">> :> KEY_F18) @@
    (<<"f", "1", "9">> :> KEY_F19) @@
    (<<"f", "2", "0">> :> KEY_F20) @@
    (<<"l", "s", "h", "i", "f", "t">> :> KEY_ShiftLeft) @@
    (<<"s", "h", "i", "f", "t">> :> KEY_ShiftLeft) @@
    (<<"r", "s", "h", "i", "f", "t">> :> KEY_ShiftRight) @@
    (<<"l", "c", "t", "r", "l">> :> KEY_ControlLeft) @@
    (<<"c", "t", "r", "l">> :> KEY_ControlLeft) @@
    (<<"r", "c", "t", "r", "l">> :> KEY_ControlRight) @@
    (<<"l", "m", "e", "t", "a">> :> KEY_MetaLeft) @@
    (<<"m", "e", "t", "a">> :> KEY_MetaLeft) @@
    (<<"r", "m", "e", "t", "a">> :> KEY_MetaRight) @@
    (<<"l", "a", "l", "t">> :> KEY_AltLeft) @@
    (<<"a", "l", "t">> :> KEY_AltLeft) @@
    (<<"r", "a", "l", "t">> :> KEY_AltRight) @@
    (<<"s", "c", "r", "l", "k">> :> KEY_Scroll_Lock) @@
    (<<"s", "y", "s", "r", "q">> :> KEY_Sys_Req) @@
    (<<"n", "u", "m", "l", "k">> :> KEY_Num_Lock) @@
    (<<"c", "a", "p", "l", "k">> :> KEY_Caps_Lock) @@
    (<<"p", "a", "u", "s", "e">> :> KEY_Pause) @@
    (<<"l", "s", "u", "p", "e", "r">> :> KEY_Super_L) @@
    (<<"s", "u", "p", "e", "r">> :> KEY_Super_L) @@
    (<<"r", "s", "u", "p", "e", "r">> :> KEY_Super_R) @@
    (<<"l", "h", "y", "p", "e", "r">> :> KEY_Hyper_L) @@
    (<<"h", "y", "p", "e", "r">> :> KEY_Hyper_L) @@
    (<<"r", "h", "y", "p", "e", "r">> :> KEY_Hyper_R) @@
    (<<"k", "p", "0">> :> KEY_KP_0) @@
    (<<"k", "p", "1">> :> KEY_KP_1) @@
    (<<"k", "p", "2">> :> KEY_KP_2) @@
    (<<"k", "p", "3">> :> KEY_KP_3) @@
    (<<"k", "p", "4">> :> KEY_KP_4) @@
    (<<"k", "p", "5">> :> KEY_KP_5) @@
    (<<"k", "p", "6">> :> KEY_KP_6) @@
    (<<"k", "p", "7">> :> KEY_KP_7) @@
    (<<"k", "p", "8">> :> KEY_KP_8) @@
    (<<"k", "p", "9">> :> KEY_KP_9) @@
    (<<"k", "p", "e", "n", "t", "e", "r">> :> KEY_KP_Enter)


\* client.py: SPECIAL_KEYS_US
SPECIAL_KEYS_US ==
    <<"~", "!", "@", "#", "$", "%", "^", "&", "*", "(", ")", "_", "+", "{", "}",
      "|", ":", "\"", "<", ">", "?">>

\* str.isupper(): a cased character, and no lower-case one
isupper(key) ==
    /\ \E i \in DOMAIN key : ord(key[i]) \in 65..90
    /\ \A i \in DOMAIN key : ord(key[i]) \notin 97..122

\* "key in text" for two str
In(key, text) ==
    \E i \in 0..(Len(text) - Len(key)) : SubSeq(text, i + 1, i + Len(key)) = key

\* str.split(sep)
RECURSIVE split(_, _)
split(key, sep) ==
    IF \A i \in DOMAIN key : key[i] # sep THEN <<key>>
    ELSE LET i == CHOOSE i \in DOMAIN key :
                     key[i] = sep /\ \A j \in 1..(i - 1) : key[j] # sep
         IN  <<SubSeq(key, 1, i - 1)>> \o split(Drop(key, i), sep)

\* _decodeKey(): the keysyms of a key name; "%c" takes one character and ord()
\* takes one character, a TypeError otherwise
_decodeKey(s, key) ==
    LET caps == s.force_caps /\ (isupper(key) \/ In(key, SPECIAL_KEYS_US))
        named == IF caps THEN <<"s", "h", "i", "f", "t", "-">> \o key ELSE key
        keys == IF Len(named) = 1 THEN <<named>> ELSE split(named, "-")
        known(k) == k \in DOMAIN KEYMAP
    IN  IF (caps /\ Len(key) # 1) \/ \E i \in DOMAIN keys : ~known(keys[i]) /\ Len(keys[i]) # 1
        THEN [raise |-> TRUE, keys |-> <<>>]
        ELSE [raise |-> FALSE,
              keys |-> [i \in DOMAIN keys |->
                           IF known(keys[i]) THEN KEYMAP[keys[i]] ELSE ord(keys[i][1])]]

\* keyEvent(): pack("!BBxxI", 4, down, key)
keyEvent(key, down) == _write("KeyEvent", <<4>> \o PBool(down) \o <<0, 0>> \o P32(key))

\* reversed(keys)
reversed(keys) == [i \in DOMAIN keys |-> keys[Len(keys) + 1 - i]]

\* the key events of "for k in keys: await self.keyEvent(k, down=down)"
RECURSIVE keyEvents(_, _)
keyEvents(keys, down) ==
    IF keys = <<>> THEN Outcome
    ELSE Then(keyEvent(keys[1], down), keyEvents(Drop(keys, 1), down))

\* keyPress() that releases the keys in the order it pressed them
keyPressInOrder(s, key) ==
    LET decoded == _decodeKey(s, key)
    IN  IF decoded.raise THEN Raise
        ELSE Then(keyEvents(decoded.keys, TRUE), keyEvents(decoded.keys, FALSE))

\* keyPress()
keyPress(s, key) ==
    LET decoded == _decodeKey(s, key)
    IN  IF decoded.raise THEN Raise
        ELSE Then(keyEvents(decoded.keys, TRUE), keyEvents(reversed(decoded.keys), FALSE))

\* range(start, stop, step) for a step that is not 0
range(start, stop, step) ==
    LET n == IF step > 0
             THEN (IF stop > start THEN (stop - start + step - 1) \div step ELSE 0)
             ELSE (IF start > stop THEN (start - stop - step - 1) \div (0 - step) ELSE 0)
    IN  [i \in 1..n |-> start + (i - 1) * step]

\* mouseDrag(): xsteps and ysteps, and the target
mouseDragSteps(s, x, y, step) ==
    [xsteps |-> IF x < s.x THEN range(s.x - step, x, 0 - step)
                ELSE range(s.x + step, x, step),
     ysteps |-> IF y < s.y THEN range(s.y - step, y, 0 - step)
                ELSE range(s.y + step, y, step),
     x |-> x, y |-> y]

\* mouseDrag(): the coroutine up to its next asyncio.sleep(0.2) or to its end:
\* one mouseMove() of the y loop, of the x loop, or the last one; left is what
\* the coroutine has yet to do, <<>> when it returned
mouseDragMove(s, d) ==
    IF d.ysteps # <<>>
    THEN [o |-> mouseMove(s, s.x, d.ysteps[1]), left |-> [d EXCEPT !.ysteps = Drop(@, 1)]]
    ELSE IF d.xsteps # <<>>
    THEN [o |-> mouseMove(s, d.xsteps[1], s.y), left |-> [d EXCEPT !.xsteps = Drop(@, 1)]]
    ELSE [o |-> mouseMove(s, d.x, d.y), left |-> <<>>]

\* framebufferUpdateRequest(incremental=incremental): the whole of
\* self.width x self.height, attributes that _handleServerInit() assigns
\* (AttributeError before)
framebufferUpdateRequest(s, incremental) ==
    IF "width" \notin DOMAIN s THEN Raise
    ELSE _write("FramebufferUpdateRequest",
                <<3>> \o PBool(incremental) \o P16(0) \o P16(0) \o P16(s.width) \o P16(s.height))

\* refreshScreen() that leaves the event as it finds it
refreshScreenNoClear(s, incremental) ==
    framebufferUpdateRequest(s, incremental)

\* refreshScreen() up to "await self.updateCommited.wait()"
refreshScreen(s, incremental) ==
    Then(Set([updateCommited |-> FALSE]), framebufferUpdateRequest(s, incremental))

\* Image.crop(box): the box may reach beyond the image, black there
crop(im, box) ==
    [size |-> <<box[3] - box[1], box[4] - box[2]>>,
     px |-> {<<p[1] - box[1], p[2] - box[2], p[3]>> :
                p \in {q \in im.px : box[1] <= q[1] /\ q[1] < box[3] /\
                                     box[2] <= q[2] /\ q[2] < box[4]}}]

\* Image.histogram() of an image of mode "RGB": 256 counts for each band; kept
\* are the counts that are not 0, as <<band, value, count>>
histogram(im) ==
    LET count(b, v) ==
            IF v = 0 THEN im.size[1] * im.size[2] - Cardinality({p \in im.px : p[3][b] # 0})
            ELSE Cardinality({p \in im.px : p[3][b] = v})
    IN  [len |-> 768,
         counts |-> {c \in {<<b, v, count(b, v)>> :
                               b \in 1..3, v \in {0} \cup {p[3][k] : p \in im.px, k \in 1..3}} :
                        c[3] # 0}]

\* sum((h - e) ** 2 for h, e in zip(hist, self.expected)), over the entries
\* S where one of the two counts is not 0
RECURSIVE sum_(_, _, _)
sum_(S, hist, expected) ==
    IF S = {} THEN 0
    ELSE LET k == CHOOSE k \in S : TRUE
             of(H) == IF \E c \in H : c[1] = k[1] /\ c[2] = k[2]
                      THEN (CHOOSE c \in H : c[1] = k[1] /\ c[2] = k[2])[3]
                      ELSE 0
             d == of(hist.counts) - of(expected.counts)
         IN  d * d + sum_(S \ {k}, hist, expected)

\* _expectCompare(): "rms <= maxrms" for rms = sqrt(sum_ / len(hist))
Matches(s, box, maxrms) ==
    /\ s.screen # <<>>
    /\ LET hist == histogram(crop(s.screen, box))
       IN  /\ hist.len = s.expected.len
           /\ sum_({<<c[1], c[2]>> : c \in hist.counts \cup s.expected.counts},
                   hist, s.expected) <= maxrms * maxrms * hist.len

\* _expectCompare() in its frame-th nested call, up to the wait that suspends
\* it, to its return or to its exception: a wait on the event that is set
\* returns at once, and the call nests again; RecursionError ends the nesting
RECURSIVE _expectCompare(_, _, _, _)
_expectCompare(s, box, maxrms, frames) ==
    IF frames > RecursionLimit THEN [o |-> Raise, waits |-> FALSE]
    ELSE IF Matches(s, box, maxrms) THEN [o |-> Outcome, waits |-> FALSE]
    ELSE LET request == framebufferUpdateRequest(s, s.screen # <<>>)
         IN  IF request.raise THEN [o |-> request, waits |-> FALSE]
             ELSE IF s.updateCommited
             THEN LET again == _expectCompare(s, box, maxrms, frames + 1)
                  IN  [o |-> Then(request, again.o), waits |-> again.waits]
             ELSE [o |-> request, waits |-> TRUE]

\* _expectFramebuffer(): Image.open(filename) gives image
_expectFramebuffer(s, image, x, y, maxrms) ==
    LET expected == Set([expected |-> histogram(image)])
        compare == _expectCompare(Merge(expected.set, s),
                                  <<x, y, x + image.size[1], y + image.size[2]>>, maxrms, 1)
    IN  [o |-> Then(expected, compare.o), waits |-> compare.waits]

----------------------------------------------------------------------------
(* Construction and connect() *)

\* RFBClient.__init__(), and VNCDoToolClient's class attributes and __init__()
NewClient(cls) ==
    LET base == [cls |-> cls,
                 _packet |-> <<>>, _handler |-> "_handleInitial",
                 _expected_len |-> 12, _expected_args |-> <<>>,
                 _already_expecting |-> FALSE,
                 _version |-> <<0, 0>>, _version_server |-> <<0, 0>>,
                 negotiated_encodings |-> {ENC_RAW}, _zlib_stream |-> "new",
                 pixel_format |-> DefaultPixelFormat,
                 username |-> None, password |-> None, shared |-> FALSE,
                 receive_task |-> "None", writer |-> "None", reader |-> "None"]
    IN  IF cls = "VNCDoToolClient"
        THEN Merge([encoding |-> ENC_RAW, x |-> 0, y |-> 0, buttons |-> 0,
                    screen |-> <<>>, image_mode |-> PF2IM(DefaultPixelFormat),
                    cursor |-> <<>>,
                    updateCommited |-> FALSE, pseudocursor |-> FALSE,
                    nocursor |-> FALSE, pseudodesktop |-> TRUE,
                    qemu_extended_key |-> TRUE, last_rect |-> TRUE,
                    force_caps |-> FALSE], base)
        ELSE base

\* connect(reader, writer, username, password, shared)
connect(s, username, password, shared) ==
    Merge([reader |-> "open", writer |-> "open", username |-> username,
           password |-> password, shared |-> shared, receive_task |-> "running"], s)

Connect ==
    /\ self.receive_task = "None"
    /\ self.writer = "None"
    /\ self' = connect(self, script.username, script.password, script.shared)
    /\ UNCHANGED <<script, stream, received, pending, depth, written, handed,
                   consumed, calls, ops, drag, waiter>>

----------------------------------------------------------------------------
(* The incoming data redirector *)

\* dataReceiveLoop(): the loop condition; the transport is at EOF once the
\* server's bytes are all read and the server closed
LoopCondition(s) == s.reader # "None" /\ s.writer # "None" /\ s.receive_task = "running"

\* dataReceiveLoop(): one reader.read(16) that returns n bytes, and
\* create_task(self.dataReceived(data))
DataReceiveLoop ==
    /\ depth = 0
    /\ LoopCondition(self)
    /\ pending < MaxPending
    /\ stream # <<>>
    /\ \E n \in {Min(c, Len(stream)) : c \in script.chunks} :
          /\ self' = [self EXCEPT !._packet = @ \o SubSeq(stream, 1, n)]
          /\ received' = received \o SubSeq(stream, 1, n)
          /\ stream' = Drop(stream, n)
    /\ pending' = pending + 1
    /\ UNCHANGED <<script, depth, written, handed, consumed, calls, ops, drag, waiter>>

\* dataReceiveLoop(): reader.read(16) returns b"" at end of stream: break
DataReceiveLoopEOF ==
    /\ depth = 0
    /\ LoopCondition(self)
    /\ stream = <<>>
    /\ self' = [self EXCEPT !.receive_task = "done"]
    /\ UNCHANGED <<script, stream, received, pending, depth, written, handed,
                   consumed, calls, ops, drag, waiter>>

\* the depth of _handleExpected invocations after a body with outcome o that
\* ran at depth d on attributes s: an exception unwinds every frame; expect()
\* enters _handleExpected once more when it finds _already_expecting false
DepthAfter(d, s, o) ==
    IF o.raise THEN 0
    ELSE IF o.expect # <<>> /\ ExpectReenters(s) /\ EnoughBuffered(After(s, o))
    THEN d + 1
    ELSE d

\* a dataReceived task starts while self._handler is _handleInitial
DataReceivedInitial ==
    /\ depth = 0
    /\ pending > 0
    /\ self._handler = "_handleInitial"
    /\ LET o == _handleInitial(self)
       IN  /\ self' = After(self, o)
           /\ written' = written \o WriteThrough(self, o.writes)
           /\ calls' = calls \o o.calls
           /\ consumed' = consumed \o
                 (IF "_packet" \in DOMAIN o.set THEN Take(self._packet, 12) ELSE <<>>)
           /\ depth' = DepthAfter(0, self, o)
    /\ pending' = pending - 1
    /\ UNCHANGED <<script, stream, received, handed, ops, drag, waiter>>

\* a dataReceived task starts while self._handler is _handleExpected
DataReceived ==
    /\ depth = 0
    /\ pending > 0
    /\ self._handler = "_handleExpected"
    /\ depth' = IF EnoughBuffered(self) THEN 1 ELSE 0
    /\ pending' = pending - 1
    /\ UNCHANGED <<script, stream, received, self, written, handed, consumed, calls,
                   ops, drag, waiter>>

\* _handleExpected(): the while loop ends, _already_expecting = False, return
HandleExpectedReturn ==
    /\ depth > 0
    /\ ~EnoughBuffered(self)
    /\ self' = [self EXCEPT !._already_expecting = FALSE]
    /\ depth' = depth - 1
    /\ UNCHANGED <<script, stream, received, pending, written, handed, consumed, calls,
                   ops, drag, waiter>>

\* _handleExpected(): one turn of the while loop may begin with handler h
Expecting(h) ==
    /\ depth > 0
    /\ EnoughBuffered(self)
    /\ self._expected_handler = h
    /\ Len(handed) < MaxHandled

\* the attributes the handler finds: _already_expecting = True, the block deleted
InLoop(s) == [s EXCEPT !._already_expecting = TRUE, !._packet = DelBlock(s)]

\* Event.set() in VNCDoToolClient.commitUpdate(): the future of a waiter has
\* its result from now on
Woken(w, o) ==
    IF w # <<>> /\ "updateCommited" \in DOMAIN o.set /\ o.set.updateCommited
    THEN [w EXCEPT !.woken = TRUE]
    ELSE w

\* _handleExpected(): one turn of the while loop whose handler call has outcome o
Handled(o) ==
    /\ self' = After(InLoop(self), o)
    /\ written' = written \o WriteThrough(self, o.writes)
    /\ calls' = calls \o o.calls
    /\ handed' = Append(handed, [handler |-> self._expected_handler,
                                 size |-> self._expected_len,
                                 block |-> TakeBlock(self),
                                 enough |-> Len(self._packet) >= self._expected_len,
                                 expect |-> o.expect,
                                 calls |-> o.calls,
                                 disconnect |-> o.disconnect,
                                 raise |-> o.raise,
                                 writes |-> o.writes])
    /\ consumed' = consumed \o TakeBlock(self)
    /\ depth' = DepthAfter(depth, InLoop(self), o)
    /\ waiter' = Woken(waiter, o)
    /\ UNCHANGED <<script, stream, received, pending, ops, drag>>

Do_handleNumberSecurityTypes ==
    /\ Expecting("_handleNumberSecurityTypes")
    /\ Handled(_handleNumberSecurityTypes(InLoop(self), TakeBlock(self)))
Do_handleSecurityTypes ==
    /\ Expecting("_handleSecurityTypes")
    /\ Handled(_handleSecurityTypes(InLoop(self), TakeBlock(self)))
Do_handleAuth ==
    /\ Expecting("_handleAuth")
    /\ Handled(_handleAuth(InLoop(self), TakeBlock(self)))
Do_handleConnFailed ==
    /\ Expecting("_handleConnFailed")
    /\ Handled(_handleConnFailed(InLoop(self), TakeBlock(self)))
Do_handleConnMessage ==
    /\ Expecting("_handleConnMessage")
    /\ Handled(_handleConnMessage(InLoop(self), TakeBlock(self)))
Do_handleVNCAuth ==
    /\ Expecting("_handleVNCAuth")
    /\ Handled(_handleVNCAuth(InLoop(self), TakeBlock(self)))
Do_handleDHAuth ==
    /\ Expecting("_handleDHAuth")
    /\ Handled(_handleDHAuth(InLoop(self), TakeBlock(self)))
Do_handleDHAuthKey ==
    /\ Expecting("_handleDHAuthKey")
    /\ Handled(_handleDHAuthKey(InLoop(self), TakeBlock(self)))
Do_handleDHAuthCert ==
    /\ Expecting("_handleDHAuthCert")
    /\ \E secret \in script.secrets :
          Handled(_handleDHAuthCert(InLoop(self), TakeBlock(self), secret))
Do_handleVNCAuthResult ==
    /\ Expecting("_handleVNCAuthResult")
    /\ Handled(_handleVNCAuthResult(InLoop(self), TakeBlock(self)))
Do_handleAuthFailed ==
    /\ Expecting("_handleAuthFailed")
    /\ Handled(_handleAuthFailed(InLoop(self), TakeBlock(self)))
Do_handleAuthFailedMessage ==
    /\ Expecting("_handleAuthFailedMessage")
    /\ Handled(_handleAuthFailedMessage(InLoop(self), TakeBlock(self)))
Do_handleServerInit ==
    /\ Expecting("_handleServerInit")
    /\ Handled(_handleServerInit(InLoop(self), TakeBlock(self)))
Do_handleServerName ==
    /\ Expecting("_handleServerName")
    /\ Handled(_handleServerName(InLoop(self), TakeBlock(self)))

Do_handleConnection ==
    /\ Expecting("_handleConnection")
    /\ Handled(_handleConnection(InLoop(self), TakeBlock(self)))
Do_handleQEMUServerMessage ==
    /\ Expecting("_handleQEMUServerMessage")
    /\ Handled(_handleQEMUServerMessage(InLoop(self), TakeBlock(self)))
Do_handleQEMUAudioServerMessage ==
    /\ Expecting("_handleQEMUAudioServerMessage")
    /\ Handled(_handleQEMUAudioServerMessage(InLoop(self), TakeBlock(self)))
Do_handleQEMUAudioServerProviderMessage ==
    /\ Expecting("_handleQEMUAudioServerProviderMessage")
    /\ Handled(_handleQEMUAudioServerProviderMessage(InLoop(self), TakeBlock(self)))
Do_handleQEMUAudioServerStreamMessage ==
    /\ Expecting("_handleQEMUAudioServerStreamMessage")
    /\ Handled(_handleQEMUAudioServerStreamMessage(InLoop(self), TakeBlock(self)))
Do_handleColourMapEntries ==
    /\ Expecting("_handleColourMapEntries")
    /\ Handled(_handleColourMapEntries(InLoop(self), TakeBlock(self)))
Do_handleColourMapEntriesValue ==
    /\ Expecting("_handleColourMapEntriesValue")
    /\ Handled(_handleColourMapEntriesValue(InLoop(self), TakeBlock(self)))
Do_handleServerCutText ==
    /\ Expecting("_handleServerCutText")
    /\ Handled(_handleServerCutText(InLoop(self), TakeBlock(self)))
Do_handleServerCutTextValue ==
    /\ Expecting("_handleServerCutTextValue")
    /\ Handled(_handleServerCutTextValue(InLoop(self), TakeBlock(self)))
Do_handleFramebufferUpdate ==
    /\ Expecting("_handleFramebufferUpdate")
    /\ Handled(_handleFramebufferUpdate(InLoop(self), TakeBlock(self)))
Do_handleRectangle ==
    /\ Expecting("_handleRectangle")
    /\ Handled(_handleRectangle(InLoop(self), TakeBlock(self)))
Do_handleDecodeRAW ==
    /\ Expecting("_handleDecodeRAW")
    /\ Handled(_handleDecodeRAW(InLoop(self), TakeBlock(self)))
Do_handleDecodeCopyrect ==
    /\ Expecting("_handleDecodeCopyrect")
    /\ Handled(_handleDecodeCopyrect(InLoop(self), TakeBlock(self)))
Do_handleDecodeRRE ==
    /\ Expecting("_handleDecodeRRE")
    /\ Handled(_handleDecodeRRE(InLoop(self), TakeBlock(self)))
Do_handleRRESubRectangles ==
    /\ Expecting("_handleRRESubRectangles")
    /\ Handled(_handleRRESubRectangles(InLoop(self), TakeBlock(self)))
Do_handleDecodeCORRE ==
    /\ Expecting("_handleDecodeCORRE")
    /\ Handled(_handleDecodeCORRE(InLoop(self), TakeBlock(self)))
Do_handleDecodeCORRERectangles ==
    /\ Expecting("_handleDecodeCORRERectangles")
    /\ Handled(_handleDecodeCORRERectangles(InLoop(self), TakeBlock(self)))
Do_handleDecodeZRLE ==
    /\ Expecting("_handleDecodeZRLE")
    /\ Handled(_handleDecodeZRLE(InLoop(self), TakeBlock(self)))
Do_handleDecodePsuedoCursor ==
    /\ Expecting("_handleDecodePsuedoCursor")
    /\ \E empty \in EmptyImage :
          Handled(_handleDecodePsuedoCursor(InLoop(self), TakeBlock(self), empty))
Do_handleDecodeZRLEdata ==
    /\ Expecting("_handleDecodeZRLEdata")
    /\ Handled(_handleDecodeZRLEdata(InLoop(self), TakeBlock(self)))
Do_handleDecodeHextile ==
    /\ Expecting("_handleDecodeHextile")
    /\ Handled(_handleDecodeHextile(InLoop(self), TakeBlock(self)))
Do_handleDecodeHextileSubrect ==
    /\ Expecting("_handleDecodeHextileSubrect")
    /\ Handled(_handleDecodeHextileSubrect(InLoop(self), TakeBlock(self)))
Do_handleDecodeHextileRAW ==
    /\ Expecting("_handleDecodeHextileRAW")
    /\ Handled(_handleDecodeHextileRAW(InLoop(self), TakeBlock(self)))
Do_handleDecodeHextileSubrectsColoured ==
    /\ Expecting("_handleDecodeHextileSubrectsColoured")
    /\ Handled(_handleDecodeHextileSubrectsColoured(InLoop(self), TakeBlock(self)))
Do_handleDecodeHextileSubrectsFG ==
    /\ Expecting("_handleDecodeHextileSubrectsFG")
    /\ Handled(_handleDecodeHextileSubrectsFG(InLoop(self), TakeBlock(self)))

----------------------------------------------------------------------------
(* The caller's task: it awaits one operation of VNCDoToolClient after the  *)
(* other.  keyPress() and mouseMove() run without suspending; mouseDrag()   *)
(* sleeps after each step, and the tasks of the redirector run meanwhile.   *)

\* the caller's task may run: no dataReceived task is in the middle of its run
CallerRuns ==
    /\ depth = 0
    /\ self.cls = "VNCDoToolClient"

\* the caller's task may begin an operation
CallerCalls ==
    /\ CallerRuns
    /\ drag = <<>>
    /\ waiter = <<>>
    /\ Len(ops) < MaxOps

\* an operation called with args whose run up to its first suspension, or to
\* its end, has outcome o; left is what a mouseDrag() asleep has yet to do, w
\* the operation that waits for the event
Begun(op, args, o, left, w) ==
    /\ self' = After(self, o)
    /\ written' = written \o WriteThrough(self, o.writes)
    /\ ops' = Append(ops, [op |-> op, args |-> args,
                           force_caps |-> self.force_caps,
                           open |-> self.writer # "None",
                           running |-> self.receive_task = "running",
                           at |-> << <<self.x, self.y>> >>,
                           calls |-> Len(calls),
                           writes |-> o.writes,
                           sent |-> WriteThrough(self, o.writes),
                           raise |-> o.raise,
                           done |-> left = <<>> /\ w = <<>>])
    /\ drag' = left
    /\ waiter' = w
    /\ UNCHANGED <<script, stream, received, pending, depth, handed, consumed, calls>>

Awaited(op, args, o, left) == Begun(op, args, o, left, <<>>)

\* the caller assigns client.pseudocursor = True or client.nocursor = True to
\* the client it is about to connect
UseCursor ==
    /\ self.cls = "VNCDoToolClient"
    /\ self.writer = "None" /\ self.receive_task = "None"
    /\ script.cursor # ""
    /\ ~self.pseudocursor /\ ~self.nocursor
    /\ self' = IF script.cursor = "nocursor" THEN [self EXCEPT !.nocursor = TRUE]
               ELSE [self EXCEPT !.pseudocursor = TRUE]
    /\ UNCHANGED <<script, stream, received, pending, depth, written, handed,
                   consumed, calls, ops, drag, waiter>>

\* the caller assigns client.force_caps = True
ForceCaps ==
    /\ CallerCalls
    /\ script.force_caps
    /\ ~self.force_caps
    /\ self' = [self EXCEPT !.force_caps = TRUE]
    /\ UNCHANGED <<script, stream, received, pending, depth, written, handed,
                   consumed, calls, ops, drag, waiter>>

\* await client.keyPress(key)
KeyPress ==
    /\ CallerCalls
    /\ \E key \in script.keys : Awaited("keyPress", <<key>>, keyPress(self, key), <<>>)

\* await client.mouseMove(x, y)
MouseMove ==
    /\ CallerCalls
    /\ \E p \in script.moves : Awaited("mouseMove", p, mouseMove(self, p[1], p[2]), <<>>)

\* await client.mouseDown(button), mouseUp(button), mousePress(button)
MouseDown ==
    /\ CallerCalls
    /\ \E n \in script.buttons : Awaited("mouseDown", <<n>>, mouseDown(self, n), <<>>)
MouseUp ==
    /\ CallerCalls
    /\ \E n \in script.buttons : Awaited("mouseUp", <<n>>, mouseUp(self, n), <<>>)
MousePress ==
    /\ CallerCalls
    /\ \E n \in script.buttons : Awaited("mousePress", <<n>>, mousePress(self, n), <<>>)

\* await client.mouseDrag(x, y, step): range() raises ValueError for step 0;
\* otherwise the coroutine runs to its first sleep or to its end
MouseDrag ==
    /\ CallerCalls
    /\ \E a \in script.drags :
          IF a[3] = 0 THEN Awaited("mouseDrag", a, Raise, <<>>)
          ELSE LET move == mouseDragMove(self, mouseDragSteps(self, a[1], a[2], a[3]))
               IN  Awaited("mouseDrag", a, move.o, move.left)

\* mouseDrag(): asyncio.sleep(0.2) returns, the coroutine runs to its next
\* sleep or to its end
MouseDragWakes ==
    /\ CallerRuns
    /\ drag # <<>>
    /\ LET move == mouseDragMove(self, drag)
       IN  /\ self' = After(self, move.o)
           /\ written' = written \o WriteThrough(self, move.o.writes)
           /\ ops' = [ops EXCEPT ![Len(ops)] =
                         [@ EXCEPT !.at = Append(@, <<self.x, self.y>>),
                                   !.writes = @ \o move.o.writes,
                                   !.sent = @ \o WriteThrough(self, move.o.writes),
                                   !.done = move.left = <<>>]]
           /\ drag' = move.left
    /\ UNCHANGED <<script, stream, received, pending, depth, handed, consumed, calls,
                   waiter>>

\* await client.refreshScreen(incremental): wait() suspends the caller unless the
\* event is set
RefreshScreen ==
    /\ CallerCalls
    /\ \E incremental \in script.refreshes :
          LET o == refreshScreen(self, incremental)
          IN  Begun("refreshScreen", <<incremental>>, o, <<>>,
                    IF o.raise \/ After(self, o).updateCommited THEN <<>>
                    ELSE [op |-> "refreshScreen", woken |-> FALSE])

\* refreshScreen(): wait() returns, and refreshScreen() with it
RefreshScreenReturns ==
    /\ CallerRuns
    /\ waiter # <<>>
    /\ waiter.op = "refreshScreen"
    /\ waiter.woken
    /\ ops' = [ops EXCEPT ![Len(ops)].done = TRUE]
    /\ waiter' = <<>>
    /\ UNCHANGED <<script, stream, received, self, pending, depth, written, handed,
                   consumed, calls, drag>>

\* await client.expectRegion(filename, x, y, maxrms), and expectScreen() for
\* x = y = 0
ExpectRegion ==
    /\ CallerCalls
    /\ \E a \in script.expects :
          LET c == _expectFramebuffer(self, a[1], a[2], a[3], a[4])
          IN  Begun("expectRegion", a, c.o, <<>>,
                    IF c.waits
                    THEN [op |-> "expectRegion", woken |-> FALSE, frames |-> 1,
                          box |-> <<a[2], a[3], a[2] + a[1].size[1], a[3] + a[1].size[2]>>,
                          maxrms |-> a[4]]
                    ELSE <<>>)

\* _expectCompare(): wait() returns, and _expectCompare() calls itself
ExpectRegionWakes ==
    /\ CallerRuns
    /\ waiter # <<>>
    /\ waiter.op = "expectRegion"
    /\ waiter.woken
    /\ LET c == _expectCompare(self, waiter.box, waiter.maxrms, waiter.frames + 1)
       IN  /\ self' = After(self, c.o)
           /\ written' = written \o WriteThrough(self, c.o.writes)
           /\ ops' = [ops EXCEPT ![Len(ops)] =
                         [@ EXCEPT !.writes = @ \o c.o.writes,
                                   !.sent = @ \o WriteThrough(self, c.o.writes),
                                   !.raise = c.o.raise,
                                   !.done = ~c.waits]]
           /\ waiter' = IF c.waits
                        THEN [waiter EXCEPT !.woken = FALSE, !.frames = @ + 1]
                        ELSE <<>>
    /\ UNCHANGED <<script, stream, received, pending, depth, handed, consumed, calls, drag>>

----------------------------------------------------------------------------
(* Scenarios: what the caller passes to connect(), what the server sends, and *)
(* the sizes in which reader.read(16) returns it                              *)

\* the server's "RFB xxx.yyy\n"
Digits(n) == <<48 + (n \div 100), 48 + ((n \div 10) % 10), 48 + (n % 10)>>
ServerBanner(v) == <<82, 70, 66, 32>> \o Digits(v[1]) \o <<46>> \o Digits(v[2]) \o <<10>>

\* the server's ServerInit and name
ServerInit(width, height, pf, name) ==
    P16(width) \o P16(height) \o to_bytes(pf) \o P32(Len(name)) \o name

\* the head of a FramebufferUpdate and of one of its rectangles
Update(nRects) == <<0, 0>> \o P16(nRects)
Rect(x, y, width, height, encoding) ==
    P16(x) \o P16(y) \o P16(width) \o P16(height) \o PS32(encoding)

Script(id, cls, password, shared, chunks, ver, bytes) ==
    [id |-> id, cls |-> cls, username |-> None, password |-> password,
     shared |-> shared, secrets |-> {1, 3}, chunks |-> chunks, ver |-> ver,
     bytes |-> bytes, force_caps |-> FALSE, keys |-> {}, moves |-> {}, drags |-> {},
     refreshes |-> {}, expects |-> {}, cursor |-> "", buttons |-> {}]

Classes == {"RFBClient", "VNCDoToolClient"}
Password == <<112, 119>>
Zeros(n) == [i \in 1..n |-> 0]
PF8 == PixelFormat(8, 8, FALSE, TRUE, 7, 7, 3, 0, 3, 6)
Whole == {ReadSize}
Split == {5, ReadSize}
AnySize == 1..ReadSize

ServerVersions ==
    {<<0, 0>>, <<2, 999>>, <<3, 2>>, <<3, 3>>, <<3, 5>>, <<3, 6>>, <<3, 7>>, <<3, 8>>,
     <<3, 9>>, <<3, 889>>, <<3, 999>>, <<4, 0>>, <<4, 1>>, <<4, 5>>, <<5, 0>>,
     <<999, 999>>}

\* every server version, then one security type None and four more bytes
VersionScripts ==
    {Script("version", "RFBClient", None, TRUE, Split, v,
            ServerBanner(v) \o <<1, 1, 0, 0, 0, 1>>) : v \in ServerVersions}

\* what is no banner: "RFB 003.008\r", "RFB 003-008\n", "HTTP/1.1 400"
BadHeaders ==
    {<<82, 70, 66, 32, 48, 48, 51, 46, 48, 48, 56, 13>>,
     <<82, 70, 66, 32, 48, 48, 51, 45, 48, 48, 56, 10>>,
     <<72, 84, 84, 80, 47, 49, 46, 49, 32, 52, 48, 48>>}
BadHeaderScripts ==
    {Script("badheader", "RFBClient", None, TRUE, Split, <<0, 0>>, h \o <<1, 1>>) :
        h \in BadHeaders}

\* the lists of security types offered under 3.7 and 3.8
TypeLists ==
    {<<1>>, <<2, 1>>, <<1, 2>>, <<30, 2, 1>>, <<2, 30>>, <<16>>, <<19, 16, 5>>, <<1, 1>>,
     <<5, 2, 16>>}
SecurityScripts ==
    {Script("security", "RFBClient", Password, TRUE, Whole, v,
            ServerBanner(v) \o <<Len(l)>> \o l \o <<1, 0, 0, 0, 0>>) :
        v \in {<<3, 7>>, <<3, 8>>}, l \in TypeLists}

\* S1: 3.8, None, result 0, ServerInit 640x480 RGB32 "abc"; then a bell
S1Handshake ==
    ServerBanner(<<3, 8>>) \o <<1, 1>> \o <<0, 0, 0, 0>> \o
    ServerInit(640, 480, RGB32, <<97, 98, 99>>)
S1Scripts ==
    {Script("S1", c, None, sh, Split, <<3, 8>>, S1Handshake \o <<2>>) :
        c \in Classes, sh \in BOOLEAN}

\* None under 3.3 delivered in every size: auth code, ServerInit 3x2, a bell
AnySizeScripts ==
    {Script("anysize", "RFBClient", None, FALSE, AnySize, <<3, 3>>,
            ServerBanner(<<3, 3>>) \o P32(1) \o ServerInit(3, 2, PF8, <<>>) \o <<2>>)}

\* None under 3.8 and every security result; a reason of length 0 or 2
ResultScripts ==
    {Script("result", "RFBClient", None, TRUE, Split, <<3, 8>>,
            ServerBanner(<<3, 8>>) \o <<2, 1, 1>> \o P32(r) \o tl) :
        r \in {1, 2, 3},
        tl \in {P32(0) \o Zeros(4), P32(2) \o <<110, 111>> \o Zeros(4),
                P32(0) \o ServerInit(1, 1, RGB32, <<>>)}}

\* VNC authentication under 3.3, 3.7 and 3.8, with and without a password
VNCAuthScripts ==
    {Script("vncauth", c, pw, TRUE, Split, v,
            ServerBanner(v) \o (IF v = <<3, 3>> THEN P32(2) ELSE <<1, 2>>) \o
            [i \in 1..16 |-> i - 1] \o P32(r) \o
            (IF r = 0 THEN ServerInit(2, 1, RGB32, <<120>>) ELSE P32(1) \o <<33>> \o Zeros(4))) :
        c \in Classes, pw \in {None, Password}, v \in {<<3, 3>>, <<3, 7>>, <<3, 8>>},
        r \in {0, 1, 2}}

\* VNC authentication under 3.8 with the passwords "password", "", one of 9
\* characters, one with a character outside ASCII among the first 8, one with
\* such a character behind them, and each single ASCII character
DESPasswords ==
    {<<112, 97, 115, 115, 119, 111, 114, 100>>, <<>>,
     <<112, 97, 115, 115, 119, 111, 114, 100, 115>>, <<112, 233>>,
     <<49, 50, 51, 52, 53, 54, 55, 56, 233>>} \cup {<<c>> : c \in 0..127}
DESKeyScripts ==
    {Script("deskey", "RFBClient", pw, TRUE, Whole, <<3, 8>>,
            ServerBanner(<<3, 8>>) \o <<1, 2>> \o [i \in 1..16 |-> i - 1] \o P32(0)) :
        pw \in DESPasswords}

\* 3.3: the auth codes; connection refused with a reason of length 0 or 3
AuthScripts ==
    {Script("auth", "RFBClient", None, FALSE, Split, <<3, 3>>,
            ServerBanner(<<3, 3>>) \o tl) :
        tl \in {P32(0) \o P32(0) \o P32(0),
                P32(0) \o P32(3) \o <<98, 121, 101>> \o Zeros(3),
                P32(1) \o ServerInit(3, 2, PF8, <<>>) \o <<2>>,
                P32(5) \o P32(1) \o ServerInit(3, 2, RGB32, <<>>)}}

\* 3.8: no security type (connection refused)
RefusedScripts ==
    {Script("refused", "RFBClient", None, TRUE, Whole, <<3, 8>>,
            ServerBanner(<<3, 8>>) \o <<0>> \o tl) :
        tl \in {P32(0) \o Zeros(2), P32(2) \o <<110, 111>> \o Zeros(2)}}

\* ARD: generator, key length, modulus, server key, result
ARDScripts ==
    {Script("ard", "RFBClient", Password, TRUE, Whole, <<3, 889>>,
            ServerBanner(<<3, 889>>) \o <<1, 30>> \o P16(5) \o P16(Len(m)) \o m \o
            [i \in 1..Len(m) |-> 2] \o P32(r) \o ServerInit(1, 1, BGR16, <<>>)) :
        m \in {<<23>>, <<1, 1>>, <<0>>}, r \in {0, 1}} \cup
    \* the modulus 0, for which _encryptArd() raises, read in chunks of 5 or 16
    {Script("ardchunks", "RFBClient", Password, TRUE, Split, <<3, 889>>,
            ServerBanner(<<3, 889>>) \o <<1, 30>> \o P16(5) \o P16(1) \o <<0>> \o <<2>> \o
            P32(0) \o ServerInit(1, 1, BGR16, <<>>))}

\* ServerInit: sizes, pixel formats, names; both classes
ServerInitScripts ==
    {Script("serverinit", c, None, TRUE, Whole, v,
            ServerBanner(v) \o <<1, 1>> \o (IF v = <<3, 7>> THEN <<>> ELSE P32(0)) \o
            ServerInit(wh[1], wh[2], pf, nm) \o <<2>>) :
        c \in Classes, v \in {<<3, 7>>, <<3, 889>>}, wh \in {<<0, 0>>, <<65535, 1>>},
        pf \in {PF8, BGR16}, nm \in {<<>>, <<97, 0>>}}

HandshakeScripts ==
    VersionScripts \cup BadHeaderScripts \cup SecurityScripts \cup S1Scripts \cup
    AnySizeScripts \cup ResultScripts \cup VNCAuthScripts \cup AuthScripts \cup
    RefusedScripts \cup ARDScripts \cup ServerInitScripts \cup DESKeyScripts

\* pixels of the 32-bit format of S1
Px(n) == <<n, n, n, 0>>
Bell == <<2>>

\* framebuffer updates sent after the handshake S1
Updates ==
    {\* no rectangle
     Update(0) \o Bell,
     \* RAW and CopyRect
     Update(2) \o Rect(0, 0, 1, 1, ENC_RAW) \o Px(9) \o
         Rect(1, 0, 1, 1, ENC_COPY_RECTANGLE) \o P16(0) \o P16(0) \o Bell,
     \* two updates, the second of another size
     Update(1) \o Rect(0, 0, 2, 1, ENC_RAW) \o Px(1) \o Px(2) \o
         Update(1) \o Rect(0, 0, 1, 1, ENC_RAW) \o Px(3) \o Bell,
     \* 100 rectangles declared, the fifth is LastRect
     Update(100) \o Rect(0, 0, 1, 1, ENC_COPY_RECTANGLE) \o P16(1) \o P16(1) \o
         Rect(0, 0, 0, 0, ENC_RAW) \o
         Rect(2, 2, 1, 1, ENC_COPY_RECTANGLE) \o P16(0) \o P16(0) \o
         Rect(3, 3, 0, 5, ENC_RAW) \o
         Rect(0, 0, 0, 0, ENC_PSEUDO_LAST_RECT) \o Bell,
     \* LastRect first, second, and last of the declared ones
     Update(3) \o Rect(0, 0, 0, 0, ENC_PSEUDO_LAST_RECT) \o Bell,
     Update(3) \o Rect(5, 6, 0, 0, ENC_RAW) \o Rect(0, 0, 0, 0, ENC_PSEUDO_LAST_RECT) \o Bell,
     Update(2) \o Rect(5, 6, 0, 0, ENC_RAW) \o Rect(0, 0, 0, 0, ENC_PSEUDO_LAST_RECT) \o Bell,
     Update(1) \o Rect(0, 0, 0, 0, ENC_PSEUDO_LAST_RECT) \o Bell,
     \* the pseudo-rectangles of QEMU
     Update(2) \o Rect(0, 0, 0, 0, ENC_PSEUDO_QEMU_EXTENDED_KEY_EVENT) \o
         Rect(0, 0, 0, 0, ENC_PSEUDO_QEMU_AUDIO) \o Bell,
     Update(2) \o Rect(0, 0, 0, 0, ENC_PSEUDO_QEMU_AUDIO) \o
         Rect(0, 0, 1, 1, ENC_RAW) \o Px(7) \o Bell,
     Update(2) \o Rect(0, 0, 0, 0, ENC_PSEUDO_QEMU_AUDIO) \o
         Rect(0, 0, 0, 0, ENC_PSEUDO_LAST_RECT) \o Bell,
     \* a new desktop size
     Update(1) \o Rect(0, 0, 800, 600, ENC_PSEUDO_DESKTOP_SIZE) \o Bell,
     \* RRE with no and with one sub-rectangle
     Update(1) \o Rect(0, 0, 2, 2, ENC_RRE) \o P32(0) \o Px(4) \o Bell,
     Update(1) \o Rect(1, 1, 2, 2, ENC_RRE) \o P32(1) \o Px(4) \o
         Px(5) \o P16(1) \o P16(0) \o P16(1) \o P16(1) \o Bell,
     \* CoRRE with no and with one sub-rectangle
     Update(1) \o Rect(0, 0, 2, 2, ENC_CORRE) \o P32(0) \o Px(4) \o Bell,
     Update(2) \o Rect(0, 0, 2, 2, ENC_CORRE) \o P32(1) \o Px(4) \o
         Px(5) \o <<1, 0, 1, 1>> \o Rect(0, 0, 0, 0, ENC_RAW) \o Bell,
     \* an encoding the client does not know, then a RAW rectangle and a bell
     Update(3) \o Rect(0, 0, 1, 1, 99) \o Rect(0, 0, 1, 1, ENC_RAW) \o Px(8) \o Bell,
     Update(1) \o Rect(0, 0, 1, 1, -300) \o Bell \o Zeros(11) \o Bell}

\* the other messages sent after the handshake S1
Messages ==
    {Bell \o Bell,
     \* message types the client does not know, then a bell
     <<7>> \o Bell,
     <<150, 4>> \o Bell \o Bell,
     \* SetColourMapEntries: first colour 1, two colours
     <<1, 0>> \o P16(1) \o P16(2) \o P16(10) \o P16(20) \o P16(30) \o
         P16(40) \o P16(50) \o P16(60) \o Bell,
     <<1, 0>> \o P16(0) \o P16(0) \o Bell,
     \* ServerCutText
     <<3, 0, 0, 0>> \o P32(2) \o <<104, 233>> \o Bell,
     <<3, 0, 0, 0>> \o P32(0) \o Bell,
     \* QEMU audio: end, begin, data; an operation and a message QEMU has not
     <<255, 1>> \o P16(0) \o <<255, 1>> \o P16(1) \o
         <<255, 1>> \o P16(2) \o P32(3) \o <<1, 2, 3>> \o Bell,
     <<255, 1>> \o P16(9) \o Bell,
     <<255, 2>> \o Bell \o Bell}

\* pixels of the 32-bit format of S1 whose three colours differ
Colour(k) == <<10 * k, 10 * k + 1, 10 * k + 2, 0>>
DesktopSize(width, height) == Rect(0, 0, width, height, ENC_PSEUDO_DESKTOP_SIZE)

\* updates that build the surface of VNCDoToolClient after the handshake S1
SurfaceUpdates ==
    {\* a first rectangle at the origin, then a black pixel inside it
     Update(1) \o Rect(0, 0, 2, 2, ENC_RAW) \o Colour(1) \o Colour(2) \o Colour(3) \o
         Colour(4) \o Update(1) \o Rect(1, 1, 1, 1, ENC_RAW) \o Px(0) \o Bell,
     \* a first rectangle away from the origin
     Update(1) \o Rect(1, 2, 2, 1, ENC_RAW) \o Colour(1) \o Colour(2) \o Bell,
     \* a rectangle that reaches beyond the surface; a smaller and a larger desktop
     Update(2) \o Rect(0, 0, 1, 1, ENC_RAW) \o Colour(1) \o
         Rect(2, 1, 2, 2, ENC_RAW) \o Colour(2) \o Colour(3) \o Colour(4) \o Colour(5) \o
         Update(1) \o DesktopSize(3, 2) \o Update(1) \o DesktopSize(5, 4) \o Bell,
     \* a desktop size first, a rectangle inside it, the same, a smaller and a
     \* larger desktop
     Update(2) \o DesktopSize(4, 3) \o Rect(1, 1, 2, 1, ENC_RAW) \o Colour(5) \o Colour(6) \o
         Update(3) \o DesktopSize(4, 3) \o DesktopSize(2, 2) \o DesktopSize(3, 3) \o Bell,
     \* CopyRect of one pixel and of a row onto the surface
     Update(2) \o Rect(0, 0, 2, 1, ENC_RAW) \o Colour(1) \o Colour(2) \o
         Rect(1, 0, 1, 1, ENC_COPY_RECTANGLE) \o P16(0) \o P16(0) \o Bell,
     Update(3) \o Rect(0, 0, 2, 2, ENC_RAW) \o Colour(1) \o Colour(2) \o Colour(3) \o
         Colour(4) \o Rect(0, 0, 2, 1, ENC_COPY_RECTANGLE) \o P16(0) \o P16(1) \o
         Rect(0, 1, 2, 1, ENC_COPY_RECTANGLE) \o P16(0) \o P16(1) \o Bell,
     \* S4: a 50x50 CopyRect from (0, 10) to (100, 100) on a surface of 640x480
     Update(3) \o DesktopSize(640, 480) \o Rect(0, 10, 1, 1, ENC_RAW) \o Colour(1) \o
         Rect(100, 100, 50, 50, ENC_COPY_RECTANGLE) \o P16(0) \o P16(10) \o Bell,
     \* rectangles at the largest coordinates, the largest desktop
     Update(3) \o Rect(0, 0, 1, 1, ENC_RAW) \o Colour(1) \o
         Rect(65535, 0, 1, 1, ENC_RAW) \o Colour(2) \o
         Rect(65535, 65535, 1, 1, ENC_RAW) \o Colour(3) \o Bell,
     Update(2) \o DesktopSize(65535, 65535) \o DesktopSize(0, 0) \o Bell}

\* Hextile rectangles: 0 stands for a tile filled with the background of the
\* tile before, 2 for a tile that brings its background
HextileFills ==
    {\* 2 x 3 tiles, the last column 1 wide and the last row 1 tall
     Update(1) \o Rect(3, 5, 17, 33, ENC_HEXTILE) \o
         <<HEXTILE_BACKGROUND_SPECIFIED>> \o Colour(1) \o Zeros(5) \o Bell,
     \* 2 x 1 whole tiles
     Update(1) \o Rect(0, 0, 32, 16, ENC_HEXTILE) \o
         <<HEXTILE_BACKGROUND_SPECIFIED>> \o Colour(1) \o Zeros(1) \o Bell,
     \* one tile of 5 x 1, then a rectangle of height 0
     Update(2) \o Rect(1, 1, 5, 1, ENC_HEXTILE) \o
         <<HEXTILE_BACKGROUND_SPECIFIED>> \o Colour(1) \o
         Rect(0, 0, 5, 0, ENC_HEXTILE) \o Bell,
     \* a rectangle of width 0 and height 17, then five bells
     Update(1) \o Rect(0, 0, 0, 17, ENC_HEXTILE) \o Bell \o Bell \o Bell \o Bell \o Bell,
     \* a first tile without a background
     Update(1) \o Rect(0, 0, 1, 1, ENC_HEXTILE) \o Zeros(1)}
\* tiles with sub-rectangles and raw tiles
HextileTiles ==
    {\* background, foreground and one sub-rectangle of 1 x 1 at (1, 0); then two
     \* coloured sub-rectangles, of 1 x 2 at (0, 0) and of 2 x 1 at (0, 1)
     Update(1) \o Rect(0, 0, 18, 2, ENC_HEXTILE) \o
         <<HEXTILE_BACKGROUND_SPECIFIED + HEXTILE_FOREGROUND_SPECIFIED +
           HEXTILE_ANY_SUBRECTS>> \o Px(0) \o Colour(2) \o <<1>> \o <<16, 0>> \o
         <<HEXTILE_ANY_SUBRECTS + HEXTILE_SUBRECTS_COLORED>> \o <<2>> \o
         Colour(3) \o <<0, 1>> \o Colour(4) \o <<1, 16>> \o Bell,
     \* a raw tile of 2 x 1, then the foreground alone and no sub-rectangle
     Update(1) \o Rect(15, 0, 3, 1, ENC_HEXTILE) \o
         <<HEXTILE_RAW>> \o Colour(1) \o <<HEXTILE_RAW>> \o Colour(2) \o Colour(3) \o Bell,
     Update(1) \o Rect(0, 0, 2, 17, ENC_HEXTILE) \o
         <<HEXTILE_BACKGROUND_SPECIFIED>> \o Px(0) \o
         <<HEXTILE_FOREGROUND_SPECIFIED>> \o Colour(1) \o Bell,
     \* three tiles in a row, each with one sub-rectangle of 1 x 1: background
     \* and foreground; a coloured sub-rectangle; the foreground of before
     Update(1) \o Rect(0, 0, 33, 1, ENC_HEXTILE) \o
         <<HEXTILE_BACKGROUND_SPECIFIED + HEXTILE_FOREGROUND_SPECIFIED +
           HEXTILE_ANY_SUBRECTS>> \o Px(0) \o Colour(2) \o <<1>> \o <<16, 0>> \o
         <<HEXTILE_ANY_SUBRECTS + HEXTILE_SUBRECTS_COLORED>> \o <<1>> \o
         Colour(3) \o <<0, 0>> \o
         <<HEXTILE_ANY_SUBRECTS>> \o <<1>> \o <<0, 0>> \o Bell,
     \* the same with a raw tile of 1 x 1 in the middle, the rectangle 1 wide
     Update(1) \o Rect(0, 0, 1, 33, ENC_HEXTILE) \o
         <<HEXTILE_BACKGROUND_SPECIFIED + HEXTILE_FOREGROUND_SPECIFIED +
           HEXTILE_ANY_SUBRECTS>> \o Px(0) \o Colour(2) \o <<1>> \o <<0, 0>> \o
         <<HEXTILE_RAW>> \o Repeat(Colour(3), 16) \o
         <<HEXTILE_ANY_SUBRECTS>> \o <<1>> \o <<0, 0>> \o Bell}

\* what a server that deflates without compression sends for ZRLE: the header
\* of the zlib stream once, one stored block for the tiles of a rectangle
ZLIB_HEADER == <<120, 1>>
Stored(data) ==
    <<0, Len(data) % 256, Len(data) \div 256, (65535 - Len(data)) % 256,
      (65535 - Len(data)) \div 256>> \o data
ZRLE(x, y, width, height, zdata) ==
    Rect(x, y, width, height, ENC_ZRLE) \o P32(Len(zdata)) \o zdata
\* a CPIXEL
CPixel(k) == <<10 * k, 10 * k + 1, 10 * k + 2>>

ZRLEUpdates1 ==
    {\* an 8x8 tile with a palette of 2: 8 bytes of indices; in the same stream a
     \* 4x2 tile with a palette of 4 and one with a palette of 5
     Update(3) \o
         ZRLE(0, 0, 8, 8, ZLIB_HEADER \o Stored(<<2>> \o CPixel(1) \o CPixel(2) \o
                                               <<128, 64, 32, 16, 8, 4, 2, 1>>)) \o
         ZRLE(8, 0, 4, 2, Stored(<<4>> \o CPixel(1) \o CPixel(2) \o CPixel(3) \o CPixel(4) \o
                                  <<27, 228>>)) \o
         ZRLE(0, 8, 4, 2, Stored(<<5>> \o CPixel(1) \o CPixel(2) \o CPixel(3) \o CPixel(4) \o
                                  CPixel(5) \o <<1, 35, 64, 0>>)) \o Bell,
     \* a 3x2 tile with a palette of 2, each row of indices in a byte of its own
     Update(1) \o
         ZRLE(0, 0, 3, 2, ZLIB_HEADER \o Stored(<<2>> \o CPixel(1) \o CPixel(2) \o
                                               <<160, 64>>)) \o Bell,
     \* a tile of one colour, then a 3x2 tile with a palette of 3, each row of
     \* indices in a byte of its own; a second rectangle
     Update(2) \o
         ZRLE(1, 1, 67, 2, ZLIB_HEADER \o Stored(<<1>> \o CPixel(4) \o <<3>> \o CPixel(1) \o
                                                CPixel(2) \o CPixel(3) \o <<24, 96>>)) \o
         ZRLE(0, 0, 1, 1, Stored(<<1>> \o CPixel(5))) \o Bell,
     \* raw pixels, one colour, and a palette of 17; two stored blocks
     Update(2) \o
         ZRLE(0, 0, 65, 1, ZLIB_HEADER \o Stored(<<1>> \o CPixel(1)) \o
                            Stored(<<0>> \o CPixel(2))) \o
         ZRLE(0, 0, 1, 1, Stored(<<17>> \o CPixel(1))) \o Bell,
     \* the subencoding 129 on a tile of 2x1, with one colour and a run of 2;
     \* one colour, then the subencoding 127
     Update(1) \o
         ZRLE(0, 0, 2, 1, ZLIB_HEADER \o Stored(<<129>> \o CPixel(1) \o <<128, 1>>)) \o Bell,
     Update(1) \o
         ZRLE(0, 0, 65, 1, ZLIB_HEADER \o Stored(<<1>> \o CPixel(1) \o <<127>> \o
                                                CPixel(2))) \o Bell,
     \* a rectangle of 1x1 whose data hold two tiles of one colour
     Update(1) \o
         ZRLE(0, 0, 1, 1, ZLIB_HEADER \o Stored(<<1>> \o CPixel(1) \o <<1>> \o
                                               CPixel(2))) \o Bell}
ZRLEUpdates2 ==
    {\* palette RLE on a tile of 64x9: a run of 514 with the run bytes FF FF 03
     \* and a run of 62; then plain RLE on 2x2 and a palette RLE with single
     \* pixels and a run
     Update(3) \o
         ZRLE(0, 0, 64, 9, ZLIB_HEADER \o Stored(<<130>> \o CPixel(1) \o CPixel(2) \o
                                                <<128, 255, 255, 3, 129, 61>>)) \o
         ZRLE(0, 0, 2, 2, Stored(<<128>> \o CPixel(3) \o <<0>> \o CPixel(4) \o <<2>>)) \o
         ZRLE(0, 0, 2, 2, Stored(<<130>> \o CPixel(1) \o CPixel(2) \o <<1, 128, 1, 0>>)) \o
         Bell,
     \* plain RLE on a tile of 64x5: runs of 256 and of 64, the run bytes FF 00
     Update(1) \o
         ZRLE(7, 7, 64, 5, ZLIB_HEADER \o Stored(<<128>> \o CPixel(1) \o <<255, 0>> \o
                                                CPixel(2) \o <<63>>)) \o Bell,
     \* a run beyond the tile; run bytes that end with the data
     Update(1) \o ZRLE(0, 0, 1, 1, ZLIB_HEADER \o Stored(<<128>> \o CPixel(1) \o <<1>>)) \o
         Bell,
     Update(1) \o ZRLE(0, 0, 64, 64, ZLIB_HEADER \o Stored(<<128>> \o CPixel(1) \o
                                                  <<255>>)) \o Bell,
     \* no data at all; what is no zlib stream
     Update(2) \o ZRLE(0, 0, 1, 1, <<>>) \o ZRLE(0, 0, 1, 1, <<1, 2, 3>>) \o Bell}

\* the cursor: a rectangle of 2x2 and a cursor of 1x1 with its bit set; then a
\* cursor without width or without height; then the rectangle again
Cursor(x, y, width, height, image, mask) ==
    Rect(x, y, width, height, ENC_PSEUDO_CURSOR) \o image \o mask
CursorUpdates ==
    {Update(2) \o Rect(0, 0, 2, 2, ENC_RAW) \o Repeat(Colour(1), 4) \o
         Cursor(0, 0, 1, 1, Colour(5), <<128>>) \o
     Update(1) \o Cursor(0, 0, wh[1], wh[2], <<>>, <<>>) \o
     Update(1) \o Rect(0, 0, 2, 2, ENC_RAW) \o Repeat(Colour(2), 4) \o Bell :
        wh \in {<<0, 0>>, <<0, 1>>, <<1, 0>>}} \cup
    {\* a cursor of 1x1, then one of 2x1 whose second bit is set and whose
     \* focus is (1, 0); a rectangle after each
     Update(2) \o Rect(0, 0, 2, 2, ENC_RAW) \o Repeat(Colour(1), 4) \o
         Cursor(0, 0, 1, 1, Colour(5), <<128>>) \o
     Update(2) \o Cursor(1, 0, 2, 1, Colour(6) \o Colour(7), <<64>>) \o
         Rect(0, 0, 2, 2, ENC_RAW) \o Repeat(Colour(2), 4) \o Bell}

MessageScripts ==
    {[Script("cursor", "VNCDoToolClient", None, TRUE, Whole, <<3, 8>>, S1Handshake \o m)
         EXCEPT !.cursor = "pseudocursor"] : m \in CursorUpdates} \cup
    {[Script("cursor", "VNCDoToolClient", None, TRUE, Whole, <<3, 8>>,
             S1Handshake \o Update(1) \o Cursor(0, 0, 1, 1, Colour(5), <<128>>) \o Bell)
         EXCEPT !.cursor = "nocursor"]} \cup
    {Script("zrle", c, None, TRUE, Whole, <<3, 8>>, S1Handshake \o m) :
        c \in Classes, m \in ZRLEUpdates1} \cup
    {Script("zrle", "RFBClient", None, TRUE, Whole, <<3, 8>>, S1Handshake \o m) :
        m \in ZRLEUpdates2} \cup
    {Script("hextile", "RFBClient", None, TRUE, Whole, <<3, 8>>, S1Handshake \o m) :
        m \in HextileFills} \cup
    {Script("hextile", "VNCDoToolClient", None, TRUE, Whole, <<3, 8>>, S1Handshake \o m) :
        m \in HextileTiles} \cup
    {Script("update", c, None, TRUE, Split, <<3, 8>>, S1Handshake \o m) :
        c \in Classes, m \in Updates} \cup
    {Script("message", "RFBClient", None, TRUE, Split, <<3, 8>>, S1Handshake \o m) :
        m \in Messages} \cup
    {Script("surface", "VNCDoToolClient", None, TRUE, Whole, <<3, 8>>, S1Handshake \o m) :
        m \in SurfaceUpdates}

\* key names the caller presses: "ctrl-alt-del", "a", "A", "!", "-", "", "ctrl-c"
\* and "ctrl-xx"
KeyNames ==
    {<<"c", "t", "r", "l", "-", "a", "l", "t", "-", "d", "e", "l">>,
     <<"a">>,
     <<"A">>,
     <<"!">>,
     <<"-">>,
     <<>>,
     <<"c", "t", "r", "l", "-", "c">>,
     <<"c", "t", "r", "l", "-", "x", "x">>}
\* the targets of mouseMove(), and the targets and steps of mouseDrag()
Moves == {<<3, 4>>, <<10, 10>>}
\* the left and the middle button, the last one a PointerEvent has a bit for,
\* and the one after it
Buttons == {1, 2, 8, 9}
Drags == {<<10, 0, 5>>, <<7, 9, 2>>, <<0, 1, 3>>, <<2, 3, 0>>}

\* the images the caller expects, where and with which maxrms: the pixel
\* Colour(2) on the screen, a pixel no update brings, and black at (1, 0)
Pixel(c) == [size |-> <<1, 1>>, px |-> {<<0, 0, c>>} \ {<<0, 0, Black>>}]
Expected ==
    {<<Pixel(<<20, 21, 22>>), 0, 0, 0>>, <<Pixel(<<1, 2, 3>>), 0, 0, 0>>,
     <<Pixel(Black), 1, 0, 1>>}

\* the caller's operations on a connection whose server is silent; a key press
\* around a refused connection; drags while an update for the surface arrives
CallerScripts ==
    {[Script("keys", "VNCDoToolClient", None, TRUE, Whole, <<3, 8>>, <<>>)
         EXCEPT !.force_caps = TRUE, !.keys = KeyNames],
     [Script("keys", "VNCDoToolClient", None, TRUE, Whole, <<3, 8>>,
             ServerBanner(<<3, 8>>) \o <<0>> \o P32(0))
         EXCEPT !.keys = {<<"c", "t", "r", "l", "-", "a", "l", "t", "-", "d", "e", "l">>}],
     [Script("mouse", "VNCDoToolClient", None, TRUE, Whole, <<3, 8>>, <<>>)
         EXCEPT !.moves = Moves, !.drags = Drags],
     [Script("buttons", "VNCDoToolClient", None, TRUE, Whole, <<3, 8>>, <<>>)
         EXCEPT !.moves = {<<3, 4>>}, !.buttons = Buttons],
     \* a move of the pointer around a rectangle of 2x2 and one of 1x1 inside it
     [Script("moved", "VNCDoToolClient", None, TRUE, Whole, <<3, 8>>,
             S1Handshake \o Update(1) \o Rect(0, 0, 2, 2, ENC_RAW) \o Repeat(Colour(1), 4) \o
             Update(1) \o Rect(1, 1, 1, 1, ENC_RAW) \o Colour(2) \o Bell)
         EXCEPT !.moves = {<<3, 4>>}],
     [Script("drag", "VNCDoToolClient", None, TRUE, Whole, <<3, 8>>,
             S1Handshake \o Update(1) \o Rect(0, 0, 1, 1, ENC_RAW) \o Colour(1) \o Bell)
         EXCEPT !.drags = {<<10, 10, 5>>}]} \cup
    \* refreshScreen() around two updates, around a new desktop size and a
    \* rectangle that reaches beyond it, and when the server closes after an
    \* unknown message
    {[Script("refresh", "VNCDoToolClient", None, TRUE, Whole, <<3, 8>>, S1Handshake \o m)
         EXCEPT !.refreshes = {FALSE}] :
        m \in {Update(1) \o Rect(0, 0, 1, 1, ENC_RAW) \o Colour(1) \o
               Update(1) \o Rect(0, 0, 1, 1, ENC_RAW) \o Colour(2) \o Bell,
               Update(1) \o DesktopSize(3, 2) \o
               Update(1) \o Rect(3, 0, 1, 1, ENC_RAW) \o Colour(2) \o Bell, <<7>>}} \cup
    \* expectScreen() and expectRegion() while two updates change the pixel (0, 0)
    {[Script("expect", "VNCDoToolClient", None, TRUE, Whole, <<3, 8>>,
             S1Handshake \o Update(1) \o Rect(0, 0, 1, 1, ENC_RAW) \o Colour(1) \o
             Update(1) \o Rect(0, 0, 1, 1, ENC_RAW) \o Colour(2) \o Bell)
         EXCEPT !.expects = Expected]}

Scripts == HandshakeScripts \cup MessageScripts \cup CallerScripts

----------------------------------------------------------------------------
(* The specification *)

InitNew ==
    /\ script \in Scripts
    /\ stream = script.bytes
    /\ received = <<>>
    /\ self = NewClient(script.cls)
    /\ pending = 0
    /\ depth = 0
    /\ written = <<>>
    /\ handed = <<>>
    /\ consumed = <<>>
    /\ calls = <<>>
    /\ ops = <<>>
    /\ drag = <<>>
    /\ waiter = <<>>

Init == InitNew

Next ==
    \/ Connect
    \/ UseCursor
    \/ DataReceiveLoop
    \/ DataReceiveLoopEOF
    \/ DataReceivedInitial
    \/ DataReceived
    \/ HandleExpectedReturn
    \/ Do_handleNumberSecurityTypes
    \/ Do_handleSecurityTypes
    \/ Do_handleAuth
    \/ Do_handleConnFailed
    \/ Do_handleConnMessage
    \/ Do_handleVNCAuth
    \/ Do_handleDHAuth
    \/ Do_handleDHAuthKey
    \/ Do_handleDHAuthCert
    \/ Do_handleVNCAuthResult
    \/ Do_handleAuthFailed
    \/ Do_handleAuthFailedMessage
    \/ Do_handleServerInit
    \/ Do_handleServerName
    \/ Do_handleConnection
    \/ Do_handleQEMUServerMessage
    \/ Do_handleQEMUAudioServerMessage
    \/ Do_handleQEMUAudioServerProviderMessage
    \/ Do_handleQEMUAudioServerStreamMessage
    \/ Do_handleColourMapEntries
    \/ Do_handleColourMapEntriesValue
    \/ Do_handleServerCutText
    \/ Do_handleServerCutTextValue
    \/ Do_handleFramebufferUpdate
    \/ Do_handleRectangle
    \/ Do_handleDecodeRAW
    \/ Do_handleDecodeCopyrect
    \/ Do_handleDecodeRRE
    \/ Do_handleRRESubRectangles
    \/ Do_handleDecodeCORRE
    \/ Do_handleDecodeCORRERectangles
    \/ Do_handleDecodeHextile
    \/ Do_handleDecodeZRLE
    \/ Do_handleDecodeZRLEdata
    \/ Do_handleDecodeHextileSubrect
    \/ Do_handleDecodeHextileRAW
    \/ Do_handleDecodeHextileSubrectsColoured
    \/ Do_handleDecodeHextileSubrectsFG
    \/ Do_handleDecodePsuedoCursor
    \/ ForceCaps
    \/ KeyPress
    \/ MouseMove
    \/ MouseDown
    \/ MouseUp
    \/ MousePress
    \/ MouseDrag
    \/ MouseDragWakes
    \/ RefreshScreen
    \/ RefreshScreenReturns
    \/ ExpectRegion
    \/ ExpectRegionWakes

Spec == Init /\ [][Next]_vars

----------------------------------------------------------------------------
(* Properties *)

\* the writes of one kind, the invocations of one handler, the calls of one callback
Written(kind) == SelectSeq(written, LAMBDA w : w.kind = kind)
Handed(handler) == SelectSeq(handed, LAMBDA h : h.handler = handler)
Called(cb) == SelectSeq(calls, LAMBDA c : c.cb = cb)

\* no task is queued or running: what was received has been dispatched
Quiet == pending = 0 /\ depth = 0

\* the first 12 bytes received are a banner "RFB ddd.ddd\n"
BannerReceived ==
    /\ Len(received) >= 12
    /\ \A i \in 1..12 : IF i \in {5, 6, 7, 9, 10, 11} THEN IsDigit(received[i])
                        ELSE received[i] = HEADER[i]

\* the largest supported version that is <= v, clamped to (3,8)
Answer(v) ==
    LET le == {w \in SUPPORTED_SERVER_VERSIONS : VerLE(w, v)}
        top == CHOOSE w \in le : \A u \in le : VerLE(u, w)
    IN  IF VerLE(top, <<3, 8>>) THEN top ELSE <<3, 8>>

WrittenByProtocol == SelectSeq(written, LAMBDA w : w.kind \notin {"KeyEvent", "PointerEvent"})

Offered == {Handed("_handleSecurityTypes")[1].block[i] :
               i \in DOMAIN Handed("_handleSecurityTypes")[1].block}

\* C2: under a negotiated version >= (3,7), once the non-empty list of offered
\* security types has been handled, the client has written one selection byte,
\* the maximum of offered \cap {1, 2, 30}; if that intersection is empty it has
\* written no selection byte and has closed the connection
C2_MaxSecurityType ==
    Handed("_handleSecurityTypes") # <<>> =>
        /\ VerLE(<<3, 7>>, self._version)
        /\ Offered # {}
        /\ IF Offered \cap {1, 2, 30} # {}
           THEN /\ Len(Written("SecurityType")) = 1
                /\ \E m \in Offered \cap {1, 2, 30} :
                      /\ \A n \in Offered \cap {1, 2, 30} : n <= m
                      /\ Written("SecurityType")[1].data = <<m>>
           ELSE /\ Written("SecurityType") = <<>>
                /\ self.writer = "None"
                /\ self.reader = "None"

\* C2: the server offered 30, 2 and 1 and the client has chosen 30
C2_Witness ==
    /\ Handed("_handleSecurityTypes") # <<>>
    /\ Offered = {1, 2, 30}
    /\ Written("SecurityType") = << [kind |-> "SecurityType", data |-> <<30>>] >>


\* what the protocol engine writes during the handshake
EngineWrites ==
    SelectSeq(written, LAMBDA w : w.kind \in {"Banner", "SecurityType", "VNCResponse",
                                              "ARDResponse", "ClientInit"})
IsPrefix(a, b) == Len(a) <= Len(b) /\ SubSeq(b, 1, Len(a)) = a
\* a security result equal to 0 has been read
ResultOK ==
    \E i \in DOMAIN handed :
        handed[i].handler = "_handleVNCAuthResult" /\ handed[i].block = <<0, 0, 0, 0>>
\* version 3.8 and the server offered security type None only
OnlyNone38 ==
    self._version = <<3, 8>> /\ Handed("_handleSecurityTypes") # <<>> /\ Offered = {1}
ConnectionMade == Called("vncConnectionMade")

\* C3: in a 3.8 handshake where only None is offered, the engine's writes are
\* the first writes and are, in order, the banner, the selection byte 1 and the
\* shared flag, the flag written only once a result 0 was read; after ServerInit
\* and the name, connection-made has been invoked exactly once, finding stored the
\* width, height, pixel format and name sent, which stay stored (the pixel format
\* until the host asks for another), and a 1-byte message type is expected next
C3_NoneHandshake ==
    OnlyNone38 =>
        /\ IsPrefix(EngineWrites,
                    << [kind |-> "Banner", data |-> ServerBanner(<<3, 8>>)],
                       [kind |-> "SecurityType", data |-> <<1>>],
                       [kind |-> "ClientInit", data |-> IF script.shared THEN <<1>> ELSE <<0>>] >>)
        /\ SubSeq(WrittenByProtocol, 1, Len(EngineWrites)) = EngineWrites
        /\ Len(EngineWrites) = 3 => ResultOK
        /\ (Handed("_handleVNCAuthResult") # <<>> /\
            Handed("_handleVNCAuthResult")[1].block = <<0, 0, 0, 0>>) => Len(EngineWrites) = 3
        /\ Len(ConnectionMade) = Len(Handed("_handleServerName"))
        /\ Len(ConnectionMade) <= 1
        /\ Handed("_handleServerName") # <<>> =>
              LET init == Handed("_handleServerInit")[1].block
                  name == Handed("_handleServerName")[1].block
                  found == ConnectionMade[1].args
              IN  /\ found[1] = init[1] * 256 + init[2]
                  /\ found[2] = init[3] * 256 + init[4]
                  /\ to_bytes(found[3]) = SubSeq(init, 5, 20)
                  /\ found[4] = name
                  /\ Len(name) = U32(init, 21)
                  /\ self.width = found[1] /\ self.height = found[2] /\ self.name = name
                  /\ Written("SetPixelFormat") = <<>> => self.pixel_format = found[3]
        /\ (handed # <<>> /\ handed[Len(handed)].handler = "_handleServerName") =>
              (self._expected_handler = "_handleConnection" /\ self._expected_len = 1)

\* C3: the handshake S1 is through: 640x480, RGB32, "abc", shared
C3_Witness ==
    /\ OnlyNone38
    /\ script.shared
    /\ Len(EngineWrites) = 3
    /\ handed # <<>> /\ handed[Len(handed)].handler = "_handleServerName"
    /\ Len(ConnectionMade) = 1
    /\ self.width = 640 /\ self.height = 480 /\ self.pixel_format = RGB32
    /\ self.name = <<97, 98, 99>>

\* ClientInit was reached: the flag written, or ServerInit awaited or handled
ClientInitReached ==
    \/ Written("ClientInit") # <<>>
    \/ Handed("_handleServerInit") # <<>>
    \/ ("_expected_handler" \in DOMAIN self /\ self._expected_handler = "_handleServerInit")
\* a list of types whose best is None, or the auth code None, has been read
NoneChosen ==
    \E i \in DOMAIN handed :
        \/ /\ handed[i].handler = "_handleSecurityTypes"
           /\ {handed[i].block[k] : k \in DOMAIN handed[i].block} \cap {1, 2, 30} = {1}
        \/ /\ handed[i].handler = "_handleAuth"
           /\ handed[i].block = <<0, 0, 0, 1>>
\* VNC or ARD authentication has been selected
AuthSelected ==
    \/ \E i \in DOMAIN handed : handed[i].handler \in {"_handleVNCAuth", "_handleDHAuth"}
    \/ ("_expected_handler" \in DOMAIN self /\
        self._expected_handler \in {"_handleVNCAuth", "_handleDHAuth"})

\* C4: ClientInit is reached only after a security result 0 was read or, no
\* result read, when None was chosen under a version below (3,8); once VNC or
\* ARD authentication is selected, neither ClientInit nor connection-made is
\* reached without a result 0
C4_ClientInitAfterResult ==
    /\ (ClientInitReached \/ ConnectionMade # <<>>) =>
          \/ ResultOK
          \/ /\ Handed("_handleVNCAuthResult") = <<>>
             /\ NoneChosen
             /\ VerLT(self._version, <<3, 8>>)
    /\ (AuthSelected /\ (ClientInitReached \/ ConnectionMade # <<>>)) => ResultOK

\* C4: VNC authentication was selected, the result 0 read and ClientInit written
C4_Witness ==
    /\ \E i \in DOMAIN handed : handed[i].handler = "_handleVNCAuth"
    /\ ResultOK
    /\ Written("ClientInit") # <<>>
    /\ ConnectionMade # <<>>

\* the callback vncAuthFailed(reason)
AuthFailed(reason) == << [cb |-> "vncAuthFailed", args |-> reason] >>

\* C5: a security result 1 or 2 under a version below (3,8) has authFailed
\* invoked and the connection closed by the handler of the result; under (3,8)
\* that handler does neither, the next block is the 4-byte length, the one after
\* it the reason of that length, whose handler invokes authFailed with the reason
\* and closes; ClientInit is not written
C5_AuthFailure ==
    \A i \in DOMAIN handed :
        (handed[i].handler = "_handleVNCAuthResult" /\
         handed[i].block \in {<<0, 0, 0, 1>>, <<0, 0, 0, 2>>}) =>
            /\ Written("ClientInit") = <<>>
            /\ IF VerLT(self._version, <<3, 8>>)
               THEN /\ Len(handed[i].calls) = 1
                    /\ handed[i].calls[1].cb = "vncAuthFailed"
                    /\ handed[i].disconnect
               ELSE /\ handed[i].calls = <<>>
                    /\ ~handed[i].disconnect
                    /\ i + 1 \in DOMAIN handed =>
                          /\ handed[i + 1].handler = "_handleAuthFailed"
                          /\ handed[i + 1].size = 4
                          /\ handed[i + 1].calls = <<>>
                    /\ i + 2 \in DOMAIN handed =>
                          /\ handed[i + 2].handler = "_handleAuthFailedMessage"
                          /\ handed[i + 2].size = U32(handed[i + 1].block, 1)
                          /\ handed[i + 2].calls = AuthFailed(handed[i + 2].block)
                          /\ handed[i + 2].disconnect

\* C5: under 3.8 the result 2 was followed by the length 2 and the reason "no",
\* reported to authFailed, and the connection is closed
C5_Witness ==
    /\ self._version = <<3, 8>>
    /\ self.writer = "None"
    /\ \E i \in DOMAIN handed :
          /\ handed[i].handler = "_handleVNCAuthResult"
          /\ handed[i].block = <<0, 0, 0, 2>>
          /\ i + 2 \in DOMAIN handed
          /\ handed[i + 1].block = <<0, 0, 0, 2>>
          /\ handed[i + 2].calls = AuthFailed(<<110, 111>>)

\* the (handler, size) in force at invocation i: those of the most recent
\* expect() call, the first being that of _handleInitial
RECURSIVE ExpectedAt(_)
ExpectedAt(i) ==
    IF i = 1
    THEN IF VerLT(self._version, <<3, 7>>) THEN <<"_handleAuth", 4>>
         ELSE <<"_handleNumberSecurityTypes", 1>>
    ELSE IF handed[i - 1].expect # <<>>
    THEN <<handed[i - 1].expect[1], handed[i - 1].expect[2]>>
    ELSE ExpectedAt(i - 1)

\* C6: the banner taken by _handleInitial, then the blocks handed to the
\* expect-handlers in the order of invocation, then the buffer are the bytes
\* received so far in the order of arrival; every invocation is of the handler
\* and with exactly the size of the most recent expect() call, made when at
\* least that many bytes were buffered
C6_BlocksInArrivalOrder ==
    /\ consumed \o self._packet = received
    /\ consumed = (IF self._handler = "_handleExpected" THEN SubSeq(received, 1, 12)
                   ELSE <<>>) \o
                  Flatten([i \in DOMAIN handed |-> handed[i].block])
    /\ \A i \in DOMAIN handed :
          /\ Len(handed[i].block) = handed[i].size
          /\ handed[i].enough
          /\ <<handed[i].handler, handed[i].size>> = ExpectedAt(i)

\* C6: three blocks were handed, the last one of more than one byte, and bytes
\* of the next block wait in the buffer
C6_Witness ==
    /\ Len(handed) >= 3
    /\ Len(handed[Len(handed)].block) > 1
    /\ self._packet # <<>>
    /\ Len(self._packet) < self._expected_len

\* C7: at most one invocation of _handleExpected is active: a handler that
\* calls expect() does not start the next handler inside itself, and no task
\* starts a handler while one is active
C7_NoNestedHandlers == depth \in {0, 1}

\* C7: a handler has called expect(), the next block is buffered already, and
\* two more dataReceived tasks are pending
C7_Witness ==
    /\ depth = 1
    /\ pending = 2
    /\ handed # <<>>
    /\ handed[Len(handed)].expect # <<>>
    /\ EnoughBuffered(self)
    /\ self._already_expecting

\* the index of the invocation that ends the update begun at invocation i: the
\* first one from i on that expects a message type; 0 if there is none yet
UpdateEnd(i) ==
    LET ends == {k \in i..Len(handed) :
                    handed[k].expect # <<>> /\ handed[k].expect[1] = "_handleConnection"}
    IN  IF ends = {} THEN 0 ELSE CHOOSE k \in ends : \A m \in ends : k <= m
\* the callbacks of the invocations i..j
RECURSIVE CallsOf(_, _)
CallsOf(i, j) == IF i > j THEN <<>> ELSE handed[i].calls \o CallsOf(i + 1, j)
Count(cs, cb) == Len(SelectSeq(cs, LAMBDA c : c.cb = cb))
\* of a rectangle head: its encoding and its (x, y, width, height)
EncodingOf(h) == S32(h.block, 9)
PositionOf(h) == <<U16(h.block, 1), U16(h.block, 3), U16(h.block, 5), U16(h.block, 7)>>
\* the positions of the rectangle heads among the invocations i..j that are
\* neither LastRect nor a pseudo-rectangle of QEMU
RECURSIVE Positions(_, _)
Positions(i, j) ==
    IF i > j THEN <<>>
    ELSE (IF handed[i].handler = "_handleRectangle" /\
             EncodingOf(handed[i]) \notin {ENC_PSEUDO_LAST_RECT,
                                           ENC_PSEUDO_QEMU_EXTENDED_KEY_EVENT,
                                           ENC_PSEUDO_QEMU_AUDIO}
          THEN <<PositionOf(handed[i])>> ELSE <<>>) \o Positions(i + 1, j)
\* the connection was not closed by any of the invocations 1..k
OpenThrough(k) == \A m \in 1..k : ~handed[m].disconnect
\* the decoder of the encodings that carry data
DecoderOf(encoding) ==
    CASE encoding = ENC_RAW -> "_handleDecodeRAW"
      [] encoding = ENC_COPY_RECTANGLE -> "_handleDecodeCopyrect"
      [] encoding = ENC_RRE -> "_handleDecodeRRE"
      [] encoding = ENC_CORRE -> "_handleDecodeCORRE"
      [] OTHER -> ""
UpdatesBegun ==
    {i \in DOMAIN handed : handed[i].handler = "_handleFramebufferUpdate"}

LastRects ==
    {m \in DOMAIN handed : handed[m].handler = "_handleRectangle" /\
                           EncodingOf(handed[m]) = ENC_PSEUDO_LAST_RECT}
\* the invocation that began the update of invocation m
UpdateOf(m) == CHOOSE i \in UpdatesBegun : i < m /\ \A k \in UpdatesBegun : k < m => k <= i

ProtocolError(i) ==
    /\ handed[i].disconnect
    /\ \A m \in 1..(i - 1) : ~handed[m].disconnect
    /\ \/ handed[i].handler \in {"_handleConnection", "_handleQEMUServerMessage",
                                 "_handleQEMUAudioServerMessage", "_handleRectangle",
                                 "_handleSecurityTypes", "_handleAuth"}
       \/ /\ handed[i].handler = "_handleVNCAuthResult"
          /\ handed[i].block \notin {<<0, 0, 0, 0>>, <<0, 0, 0, 1>>, <<0, 0, 0, 2>>}

\* C10 as stated: the invocation that closes the connection on a protocol error
\* is the last one: no handler is invoked, and with it no callback and no
\* deletion from the buffer, after it
C10_NothingAfterClose ==
    \A i \in DOMAIN handed : ProtocolError(i) => i = Len(handed)

----------------------------------------------------------------------------
(* The surface of VNCDoToolClient *)

LastHanded == handed[Len(handed)]
\* the arguments of the updateRectangle() call of the last invocation
LastRectangle == LastHanded.calls[1].args

\* the last invocation was the Raw decoder of VNCDoToolClient with a payload
RawDecoded ==
    /\ Len(handed) > 0
    /\ LastHanded.handler = "_handleDecodeRAW"
    /\ LastHanded.block # <<>>
    /\ self.cls = "VNCDoToolClient"

\* pixel (i, j) of a payload of rows of the given width
PayloadPixel(data, width, i, j) ==
    Unpack(self.image_mode, PixelBytes(data, width, RawBytes(self.image_mode), i, j))

\* the surface reaches to the lower right corner of the rectangle a
Covers(a) == self.screen.size[1] >= a[1] + a[3] /\ self.screen.size[2] >= a[2] + a[4]
\* the surface shows the payload of the rectangle a at (x, y)
Shows(a) ==
    \A i \in 0..(a[3] - 1), j \in 0..(a[4] - 1) :
        getpixel(self.screen, a[1] + i, a[2] + j) = PayloadPixel(a[5], a[3], i, j)

\* C11 as stated: after the Raw decoder of VNCDoToolClient applied a rectangle
\* (x, y, w, h) with a payload, whatever the surface was before, the surface is
\* at least x+w wide and y+h tall and its pixel (x+i, y+j) is pixel (i, j) of
\* the payload
C11_RawLandsAtXY == RawDecoded => Covers(LastRectangle) /\ Shows(LastRectangle)

\* the Copyrect decoder of VNCDoToolClient is invoked on a surface
CopyrectDecodes ==
    /\ Expecting("_handleDecodeCopyrect")
    /\ self.cls = "VNCDoToolClient"
    /\ self.screen # <<>>
    /\ handed' # handed

\* C12 as stated: when the Copyrect decoder of VNCDoToolClient applies a
\* rectangle (x, y, w, h) with source (srcx, srcy), the w x h region of the
\* surface at (x, y) is afterwards what the region at (srcx, srcy) was before
C12_CopyrectCopies ==
    [][CopyrectDecodes =>
          LET a == self._expected_args
              srcx == U16(TakeBlock(self), 1)
              srcy == U16(TakeBlock(self), 3)
          IN  \A i \in 0..(a[3] - 1), j \in 0..(a[4] - 1) :
                  getpixel(self'.screen, a[1] + i, a[2] + j) =
                      getpixel(self.screen, srcx + i, srcy + j)]_vars

\* the rectangle handler of VNCDoToolClient is invoked with a DesktopSize head
\* that is not beyond the count of the update
DesktopSizeDecodes ==
    /\ Expecting("_handleRectangle")
    /\ self.cls = "VNCDoToolClient"
    /\ S32(TakeBlock(self), 9) = ENC_PSEUDO_DESKTOP_SIZE
    /\ self.rectangles # 0
    /\ handed' # handed
\* the pixels of the surface that are not black; none without a surface
Coloured(s) == IF s.screen = <<>> THEN {} ELSE s.screen.px

\* C13 as stated: updateDesktopSize(w, h) leaves a surface of w x h on which
\* every pixel of the surface before is still present at its place
C13_EveryPixelKept ==
    [][DesktopSizeDecodes =>
          /\ self'.screen.size = <<U16(TakeBlock(self), 5), U16(TakeBlock(self), 7)>>
          /\ Coloured(self) \subseteq Coloured(self')]_vars

\* C13: updateDesktopSize(w, h) leaves a surface of w x h; a pixel of the
\* surface before is still present at (x, y) if x < w and y < h, and every
\* other pixel of the new surface is black.  By induction a pixel survives a
\* sequence of calls if it lies inside each of their sizes.
C13_LastSizeAndPixelsInside ==
    [][DesktopSizeDecodes =>
          LET w == U16(TakeBlock(self), 5)
              h == U16(TakeBlock(self), 7)
          IN  /\ self'.screen.size = <<w, h>>
              /\ Coloured(self') = {p \in Coloured(self) : p[1] < w /\ p[2] < h}]_vars

\* the last invocation applied a desktop size (w, h) to a surface of another
\* size, which cut some coloured pixels and kept others
C13_Witness ==
    /\ Len(handed) > 0
    /\ LastHanded.handler = "_handleRectangle"
    /\ self.cls = "VNCDoToolClient"
    /\ Len(Called("updateDesktopSize")) = 3
    /\ LastHanded.calls[1].cb = "updateDesktopSize"
    /\ LastHanded.calls[1].args = <<2, 2>>
    /\ self.screen = [size |-> <<2, 2>>, px |-> {<<1, 1, <<50, 51, 52>>>>}]

\* a handler of VNCDoToolClient is invoked while there is a surface, and the
\* client holds no cursor to paste over it
SurfaceStep ==
    /\ self.cls = "VNCDoToolClient"
    /\ self.screen # <<>>
    /\ handed' # handed
    /\ self'.cursor = <<>>
\* the callbacks of the step
StepCalls == SubSeq(calls', Len(calls) + 1, Len(calls'))
\* the rectangles the step applied, and the desktop sizes
StepRectangles ==
    {StepCalls[k].args : k \in {n \in DOMAIN StepCalls : StepCalls[n].cb = "updateRectangle"}}
StepDesktopSizes ==
    {StepCalls[k].args : k \in {n \in DOMAIN StepCalls : StepCalls[n].cb = "updateDesktopSize"}}
\* the coloured pixels of s outside the rectangles the step applied
Untouched(s) ==
    {p \in Coloured(s) : \A a \in StepRectangles :
        ~(a[1] <= p[1] /\ p[1] < a[1] + a[3] /\ a[2] <= p[2] /\ p[2] < a[2] + a[4])}
\* neither the width nor the height decreases in the step
NoSmaller ==
    /\ self'.screen.size[1] >= self.screen.size[1]
    /\ self'.screen.size[2] >= self.screen.size[2]

C15_SizeBelowMax ==
    (self.cls = "VNCDoToolClient" /\ self.screen # <<>>) =>
        /\ 0 <= self.screen.size[1] /\ self.screen.size[1] < MAX_DESKTOP_SIZE
        /\ 0 <= self.screen.size[2] /\ self.screen.size[2] < MAX_DESKTOP_SIZE

----------------------------------------------------------------------------
(* Hextile tiles *)

\* the arguments of the expect() call in force at invocation i > 1
RECURSIVE ArgsAt(_)
ArgsAt(i) == IF handed[i - 1].expect # <<>> THEN handed[i - 1].expect[3] ELSE ArgsAt(i - 1)

\* the rectangle heads of encoding Hextile that started the decoder or, the
\* rectangle being of height 0, went on to the next head
HextileHeads ==
    {i \in DOMAIN handed :
        /\ handed[i].handler = "_handleRectangle"
        /\ EncodingOf(handed[i]) = ENC_HEXTILE
        /\ OpenThrough(i)}
\* the invocation that follows the rectangle of head i: the next rectangle
\* head or message type; 0 if there is none yet
HextileEnd(i) ==
    LET ends == {k \in (i + 1)..Len(handed) :
                    handed[k].handler \in {"_handleRectangle", "_handleConnection"}}
    IN  IF ends = {} THEN 0 ELSE CHOOSE k \in ends : \A m \in ends : k <= m
\* the invocations of _handleDecodeHextile for the rectangle of head i: each
\* reads the subencoding byte of one tile
TilesOf(i) ==
    {k \in (i + 1)..(IF HextileEnd(i) = 0 THEN Len(handed) ELSE HextileEnd(i)) :
        handed[k].handler = "_handleDecodeHextile"}
\* the tile <<tx, ty, tw, th>> invocation k decodes: tx and ty are arguments,
\* tw and th go to the next handler or to fillRectangle()
TileAt(k) ==
    LET e == handed[k].expect
        a == e[3]
        f == handed[k].calls[1].args
    IN  <<ArgsAt(k)[7], ArgsAt(k)[8]>> \o
        (IF e # <<>> /\ e[1] \in {"_handleDecodeHextileRAW", "_handleDecodeHextileSubrect"}
         THEN <<a[Len(a) - 1], a[Len(a)]>>
         ELSE <<f[3], f[4]>>)
\* tile number m (from 0) of the rectangle p = <<x, y, w, h>> in row-major
\* order: 16 x 16, the last column w mod 16 wide and the last row h mod 16
\* tall when that is not 0
Columns(p) == (p[3] + 15) \div 16
Rows(p) == (p[4] + 15) \div 16
RowMajorTile(p, m) ==
    LET c == m % Columns(p)
        r == m \div Columns(p)
    IN  <<p[1] + 16 * c, p[2] + 16 * r,
          IF c = Columns(p) - 1 /\ p[3] % 16 # 0 THEN p[3] % 16 ELSE 16,
          IF r = Rows(p) - 1 /\ p[4] % 16 # 0 THEN p[4] % 16 ELSE 16>>
\* the pixels of a tile or rectangle <<x, y, w, h>>
Pixels(q) == (q[1]..(q[1] + q[3] - 1)) \X (q[2]..(q[2] + q[4] - 1))

\* the tiles of the rectangle of head i are visited in row-major order, one
\* subencoding byte each; once the rectangle is done they are
\* ceil(w/16) * ceil(h/16), and every pixel of the rectangle is in one tile
HextileTiled(i) ==
    LET p == PositionOf(handed[i])
        n == Columns(p) * Rows(p)
    IN  /\ \A k \in TilesOf(i) :
              LET m == Cardinality({j \in TilesOf(i) : j < k})
              IN  /\ handed[k].size = 1
                  /\ m < n
                  /\ TileAt(k) = RowMajorTile(p, m)
        /\ HextileEnd(i) # 0 =>
              /\ Cardinality(TilesOf(i)) = n
              /\ \A k \in TilesOf(i) : Pixels(TileAt(k)) \subseteq Pixels(p)
              /\ \A c \in Pixels(p) :
                    Cardinality({k \in TilesOf(i) : c \in Pixels(TileAt(k))}) = 1

\* C16 as stated: for every Hextile rectangle (x, y, w, h) the decoder visits
\* the tiles in row-major order, they are pairwise disjoint and cover the
\* rectangle, they are 16 x 16 but for a last column of w mod 16 and a last
\* row of h mod 16, and one subencoding byte is read per tile,
\* ceil(w/16) * ceil(h/16) in all before the next rectangle head
C16_HextileTiles == \A i \in HextileHeads : HextileTiled(i)

----------------------------------------------------------------------------
(* ZRLE tiles *)

ZRLEData == {i \in DOMAIN handed : handed[i].handler = "_handleDecodeZRLEdata"}
\* the zlib stream after invocation i
RECURSIVE ZlibAt(_)
ZlibAt(i) ==
    IF i = 0 THEN "new"
    ELSE IF i \in ZRLEData THEN decompress(ZlibAt(i - 1), handed[i].block).zs
    ELSE ZlibAt(i - 1)
\* the data invocation i inflated and the tiles it decoded from them
DataAt(i) == decompress(ZlibAt(i - 1), handed[i].block).data
TilesAt(i) == ZRLETiles(DataAt(i), 0, ArgsAt(i), ArgsAt(i)[1], ArgsAt(i)[2])

\* the bytes of indices of a tile with a palette of p whose rows each end
\* with a byte
RowBytes(tile, p) == tile.th * ((tile.tw * IndexBits(p) + 7) \div 8)
\* a tile with a packed palette of p colours and with pixels, for which the
\* data hold the palette, the rows of indices, and no index beyond the palette
PackedTile(data, tile) ==
    LET p == tile.subencoding
    IN  /\ p \in 2..16
        /\ tile.tw > 0 /\ tile.th > 0
        /\ tile.start + 3 * p + RowBytes(tile, p) <= Len(data)
        /\ \A k \in 0..(tile.tw * tile.th - 1) :
              PackedInRows(data, tile.start + 3 * p, IndexBits(p), k, tile.tw) < p
\* the tile was decoded from 3p bytes of palette and th * ceil(tw * b / 8)
\* bytes of indices, pixel number k having the colour of the index found in
\* the row of k
DecodedInRows(data, tile) ==
    LET p == tile.subencoding
    IN  /\ tile.ok
        /\ tile.pos - tile.start = 3 * p + RowBytes(tile, p)
        /\ \A k \in 0..(tile.tw * tile.th - 1) :
              SubSeq(tile.pixel_data, 4 * k + 1, 4 * k + 3) =
                  SubSeq(data, tile.start + 3 * PackedInRows(data, tile.start + 3 * p,
                                                             IndexBits(p), k, tile.tw) + 1,
                         tile.start + 3 * PackedInRows(data, tile.start + 3 * p,
                                                       IndexBits(p), k, tile.tw) + 3)

\* C17 as stated: a tile of tw x th with rle = 0 and a palette of p in 2..16 is
\* decoded from exactly 3p bytes of palette and th * ceil(tw * b / 8) bytes of
\* indices after the subencoding byte, b being 1, 2 or 4 bits for p = 2,
\* p in 3..4, p in 5..16, and the low bits left in the last byte of a row
\* are not used
C17_PackedPaletteInRows ==
    \A i \in ZRLEData :
        \A n \in DOMAIN TilesAt(i) :
            PackedTile(DataAt(i), TilesAt(i)[n]) => DecodedInRows(DataAt(i), TilesAt(i)[n])

RECURSIVE SumOf(_)
SumOf(bs) == IF bs = <<>> THEN 0 ELSE bs[1] + SumOf(Drop(bs, 1))
\* the bytes read for a run <<offset before, pixels, offset after>> of data
RunBytes(data, run) == SubSeq(data, run[1] + 1, run[3])

\* C18: in both RLE modes the bytes read for a run are the run-length bytes up
\* to and including the first one below 255, and the run is 1 plus their sum
\* long
C18_RunLength ==
    \A i \in ZRLEData :
        \A n \in DOMAIN TilesAt(i) :
            \A r \in DOMAIN TilesAt(i)[n].runs :
                LET run == TilesAt(i)[n].runs[r]
                    bytes == RunBytes(DataAt(i), run)
                IN  /\ bytes # <<>>
                    /\ \A j \in 1..(Len(bytes) - 1) : bytes[j] = 255
                    /\ bytes[Len(bytes)] < 255
                    /\ run[2] = 1 + SumOf(bytes)

\* a palette run with the run bytes FF FF 03 was decoded: the rectangle handed
\* to updateRectangle() starts with 514 pixels of the first colour, and the
\* index of the next run was read right after the three bytes
C18_Witness ==
    /\ Len(handed) > 0
    /\ LastHanded.handler = "_handleDecodeZRLEdata"
    /\ TilesAt(Len(handed)) # <<>>
    /\ \E r \in DOMAIN TilesAt(Len(handed))[1].runs :
          LET run == TilesAt(Len(handed))[1].runs[r]
          IN  /\ RunBytes(DataAt(Len(handed)), run) = <<255, 255, 3>>
              /\ run[2] = 514
              /\ DataAt(Len(handed))[run[3] + 1] = 129
    /\ LastHanded.calls[1].cb = "updateRectangle"
    /\ Take(LastHanded.calls[1].args[5], 4 * 515) =
          Repeat(<<10, 11, 12, 255>>, 514) \o <<20, 21, 22, 255>>

\* the operations of the caller so far that are calls of op
OpsOf(op) == {i \in DOMAIN ops : ops[i].op = op}

\* the name _decodeKey() splits: "shift-" put before a key that force_caps
\* finds upper-case or special
NameOf(o) ==
    IF o.force_caps /\ (isupper(o.args[1]) \/ In(o.args[1], SPECIAL_KEYS_US))
    THEN <<"s", "h", "i", "f", "t", "-">> \o o.args[1]
    ELSE o.args[1]
\* the segments k1..kn of a name
Segments(name) == IF Len(name) = 1 THEN <<name>> ELSE split(name, "-")
\* the keysym of a segment: the alias table or, on a miss, the character code
Keysym(k) == IF k \in DOMAIN KEYMAP THEN KEYMAP[k] ELSE ord(k[1])
\* a KeyEvent message
KeyEventMessage(down, keysym) == [kind |-> "KeyEvent", data |-> <<4, down, 0, 0>> \o P32(keysym)]

\* C19: a keyPress(name) that returns passed exactly 2n KeyEvent messages to
\* _write(), n the number of segments of the name: the k-th is the press of
\* segment k, the k-th from the end its release, the keysym that of the alias
\* table or the character code; with a writer they went to the transport in
\* this order
C19_KeyPressDownsThenUpsReversed ==
    \A i \in OpsOf("keyPress") :
        ~ops[i].raise =>
            LET k == Segments(NameOf(ops[i]))
                n == Len(k)
                w == ops[i].writes
            IN  /\ Len(w) = 2 * n
                /\ \A j \in 1..n :
                      /\ w[j] = KeyEventMessage(1, Keysym(k[j]))
                      /\ w[2 * n + 1 - j] = KeyEventMessage(0, Keysym(k[j]))
                /\ ops[i].open => ops[i].sent = w

\* S5: keyPress("ctrl-alt-del") without force_caps wrote down ControlLeft, down
\* AltLeft, down Delete, up Delete, up AltLeft, up ControlLeft to the
\* transport, and keyPress("ctrl-c") the events of ControlLeft and of "c"
C19_Witness ==
    /\ Len(ops) = 2
    /\ ops[1].op = "keyPress" /\ ~ops[1].force_caps /\ ops[1].open
    /\ ops[1].args = << <<"c", "t", "r", "l", "-", "a", "l", "t", "-", "d", "e", "l">> >>
    /\ [j \in 1..6 |-> ops[1].sent[j].data] =
           << <<4, 1, 0, 0, 0, 0, 255, 227>>, <<4, 1, 0, 0, 0, 0, 255, 233>>,
              <<4, 1, 0, 0, 0, 0, 255, 255>>, <<4, 0, 0, 0, 0, 0, 255, 255>>,
              <<4, 0, 0, 0, 0, 0, 255, 233>>, <<4, 0, 0, 0, 0, 0, 255, 227>> >>
    /\ ops[2].op = "keyPress" /\ ops[2].open
    /\ ops[2].args = << <<"c", "t", "r", "l", "-", "c">> >>
    /\ [j \in 1..4 |-> ops[2].sent[j].data] =
           << <<4, 1, 0, 0, 0, 0, 255, 227>>, <<4, 1, 0, 0, 0, 0, 0, 99>>,
              <<4, 0, 0, 0, 0, 0, 0, 99>>, <<4, 0, 0, 0, 0, 0, 255, 227>> >>
    /\ written = ops[1].sent \o ops[2].sent

\* the positions of a sequence of PointerEvent messages
PointerPositions(w) == [k \in DOMAIN w |-> <<U16(w[k].data, 3), U16(w[k].data, 5)>>]
Distance(a, b) == IF a < b THEN b - a ELSE a - b
\* this step a mouseDrag() returns, with or without sleeps before
DragReturns ==
    /\ ops' # ops
    /\ ops'[Len(ops')].op = "mouseDrag"
    /\ ops'[Len(ops')].done
    /\ ~ops'[Len(ops')].raise

\* C20: a mouseDrag(x, y, step) that returns has emitted PointerEvents whose
\* first is at the position tracked when it was called, each next one at most
\* one step further along each axis, the last at (x, y), and it leaves (x, y)
\* as the tracked position
C20_DragFromStartToTarget ==
    [][DragReturns =>
          LET o == ops'[Len(ops')]
              p == PointerPositions(o.writes)
              step == Distance(0, o.args[3])
          IN  /\ p[1] = o.at[1]
              /\ \A k \in 1..(Len(p) - 1) :
                    /\ Distance(p[k][1], p[k + 1][1]) <= step
                    /\ Distance(p[k][2], p[k + 1][2]) <= step
              /\ p[Len(p)] = <<o.args[1], o.args[2]>>
              /\ <<self'.x, self'.y>> = <<o.args[1], o.args[2]>>]_vars

\* the commitUpdate() calls among the callbacks after the first n
CommitsAfter(n) == {k \in (n + 1)..Len(calls) : calls[k].cb = "commitUpdate"}
\* a FramebufferUpdateRequest for the whole of 640 x 480
UpdateRequest(incremental) ==
    [kind |-> "FramebufferUpdateRequest",
     data |-> <<3, IF incremental THEN 1 ELSE 0, 0, 0, 0, 0, 2, 128, 1, 224>>]

\* C21: a refreshScreen() leaves the event updateCommited clear when it begins
\* to wait; one that did not raise passed exactly one FramebufferUpdateRequest
\* to _write(), and when it has returned commitUpdate() was invoked after the
\* call began
C21_RefreshWaitsForNewCommit ==
    /\ [](\A i \in OpsOf("refreshScreen") :
             ~ops[i].raise =>
                 /\ ops[i].writes = <<UpdateRequest(ops[i].args[1])>>
                 /\ ops[i].open => ops[i].sent = ops[i].writes
                 /\ ops[i].done => CommitsAfter(ops[i].calls) # {})
    /\ [][RefreshScreen => ~self'.updateCommited]_vars

\* C21: a refreshScreen() called after a commit has returned after the next
C21_Witness ==
    \E i \in OpsOf("refreshScreen") :
        /\ ops[i].done
        /\ ops[i].sent = <<UpdateRequest(FALSE)>>
        /\ \E k \in 1..ops[i].calls : calls[k].cb = "commitUpdate"
        /\ Cardinality(CommitsAfter(ops[i].calls)) = 1

\* the FramebufferUpdateRequests among the messages w
Requests(w) == SelectSeq(w, LAMBDA m : m.kind = "FramebufferUpdateRequest")

\* C22: the FramebufferUpdateRequests an expectScreen() or expectRegion() has
\* sent are at most one more than the commitUpdate() calls since it began
C22_RequestsFollowCommits ==
    \A i \in OpsOf("expectRegion") :
        Len(Requests(ops[i].writes)) <= Cardinality(CommitsAfter(ops[i].calls)) + 1

\* the connection was closed: disconnect() ran, or the receive loop met the end
\* of the stream
Closed == self.receive_task \in {"cancelled", "done"}

\* C23: a caller that began to wait in refreshScreen() or expectScreen() while
\* the receive loop ran is not left suspended with its wait() unanswered once
\* the connection is closed and the redirector has nothing left to run
C23_NoWaiterLeftBehind ==
    (Closed /\ Quiet /\ waiter # <<>> /\ ops[Len(ops)].running) => waiter.woken

\* bit j of the octet b, and the octet whose bit j is bit 7 - j of b
Bit(b, j) == (b \div 2^j) % 2
Mirrored(b) == CHOOSE c \in 0..255 : \A j \in 0..7 : Bit(c, j) = Bit(b, 7 - j)
\* the keys of the responses to a VNC challenge written so far
ResponseKeys == [k \in DOMAIN Written("VNCResponse") |-> Written("VNCResponse")[k].key]
\* "password"
WordPassword == <<112, 97, 115, 115, 119, 111, 114, 100>>

\* C24: for the password "password" the DES key of the response is
\* 0E 86 CE CE EE F6 4E 26
C24_KeyOfPassword ==
    self.password = WordPassword =>
        \A k \in DOMAIN ResponseKeys :
            ResponseKeys[k] = <<14, 134, 206, 206, 238, 246, 78, 38>>

\* C24 as stated: for the password "password" the DES key of the response is
\* 0E 0A 0C 0E 96 0E 8E 0C
C24_KeyAsStated ==
    self.password = WordPassword =>
        \A k \in DOMAIN ResponseKeys :
            ResponseKeys[k] = <<14, 10, 12, 14, 150, 14, 142, 12>>

\* the challenge was answered with the password "password"
C24_Witness ==
    /\ self.password = WordPassword
    /\ Len(ResponseKeys) = 1

ReasonHandlers == {"_handleConnMessage", "_handleAuthFailedMessage"}

\* C26: the handler of the reason is invoked at most once in a connection,
\* whatever the length of the reason: after it the dispatcher loop stops
C26_ReasonHandledOnce ==
    \A h \in ReasonHandlers : Len(Handed(h)) <= 1

\* the positions of the rectangle heads among the invocations i..j that are
\* neither LastRect, nor DesktopSize, nor a pseudo-rectangle of QEMU
RECURSIVE PixelPositions(_, _)
PixelPositions(i, j) ==
    IF i > j THEN <<>>
    ELSE (IF handed[i].handler = "_handleRectangle" /\
             EncodingOf(handed[i]) \notin {ENC_PSEUDO_LAST_RECT,
                                           ENC_PSEUDO_DESKTOP_SIZE,
                                           ENC_PSEUDO_QEMU_EXTENDED_KEY_EVENT,
                                           ENC_PSEUDO_QEMU_AUDIO}
          THEN <<PositionOf(handed[i])>> ELSE <<>>) \o PixelPositions(i + 1, j)

\* C27: the list passed to commitUpdate() at the end of an update holds, in
\* the order sent, the positions of the rectangles of the update other than
\* the DesktopSize and QEMU pseudo-rectangles, and nothing else
C27_CommitListsPixelRectangles ==
    \A i \in UpdatesBegun :
        LET e == UpdateEnd(i)
        IN  (e # 0 /\ OpenThrough(e)) =>
                \A c \in DOMAIN CallsOf(i, e) :
                    CallsOf(i, e)[c].cb = "commitUpdate" =>
                        CallsOf(i, e)[c].args = PixelPositions(i, e)

\* the invocations that were handed the sub-rectangles of a CoRRE rectangle
CoRRESubrects == {m \in DOMAIN handed : handed[m].handler = "_handleDecodeCORRERectangles"}
\* the fillRectangle() of sub-rectangle k, counted from 0, of a block whose
\* pixels have n bytes, in the rectangle at head
SubrectFill(head, block, n, k) ==
    LET at == k * (n + 4)
    IN  [cb |-> "fillRectangle",
         args |-> <<head[1] + block[at + n + 1], head[2] + block[at + n + 2],
                    block[at + n + 3], block[at + n + 4], SubSeq(block, at + 1, at + n)>>]

\* C28: the sub-rectangles of a CoRRE rectangle that announces nSub > 0 are
\* read as one block of (bypp + 4) * nSub bytes; each is filled, in the order
\* sent, at its offset from the corner of the rectangle with its size and
\* colour, and the next rectangle head or message type is expected after them
C28_CoRRESubrectsFilled ==
    \A m \in CoRRESubrects :
        LET n == bypp(self.pixel_format)
            nSub == U32(handed[m - 1].block, 1)
            head == PositionOf(handed[m - 2])
            fills == SelectSeq(handed[m].calls, LAMBDA c : c.cb = "fillRectangle")
        IN  /\ handed[m].size = (n + 4) * nSub
            /\ fills = [k \in 1..nSub |-> SubrectFill(head, handed[m].block, n, k - 1)]
            /\ handed[m].expect # <<>>
            /\ handed[m].expect[1] \in {"_handleRectangle", "_handleConnection"}

\* the rectangle head before invocation m
HeadBefore(m) ==
    LET heads == {i \in 1..(m - 1) : handed[i].handler = "_handleRectangle"}
    IN  CHOOSE i \in heads : \A k \in heads : k <= i
\* the invocations up to m, in the rectangle of m, that read the colours of a
\* tile whose subencoding has the flag
TilesWith(flag, m) ==
    {j \in (HeadBefore(m) + 1)..m :
        /\ handed[j].handler = "_handleDecodeHextileSubrect"
        /\ Flag(ArgsAt(j)[1], flag)}
Latest(S) == CHOOSE j \in S : \A k \in S : k <= j
\* the background and the foreground a tile carries: the background first
BackgroundOf(j) == Take(handed[j].block, bypp(self.pixel_format))
ForegroundOf(j) ==
    LET n == bypp(self.pixel_format)
        at == IF Flag(ArgsAt(j)[1], HEXTILE_BACKGROUND_SPECIFIED) THEN n ELSE 0
    IN  SubSeq(handed[j].block, at + 1, at + n)

\* C29: in a Hextile rectangle the sub-rectangles without a colour of their
\* own are filled with the foreground of the latest tile, this one included,
\* that specified a foreground, and a tile is filled with the background of
\* the latest tile that specified a background, whatever tiles came between
C29_HextileColoursPersist ==
    \A m \in DOMAIN handed :
        /\ (handed[m].handler = "_handleDecodeHextileSubrectsFG" /\
            TilesWith(HEXTILE_FOREGROUND_SPECIFIED, m) # {}) =>
               \A c \in DOMAIN handed[m].calls :
                   handed[m].calls[c].cb = "fillRectangle" =>
                       handed[m].calls[c].args[5] =
                           ForegroundOf(Latest(TilesWith(HEXTILE_FOREGROUND_SPECIFIED, m)))
        /\ (handed[m].handler \in {"_handleDecodeHextile", "_handleDecodeHextileSubrect"} /\
            TilesWith(HEXTILE_BACKGROUND_SPECIFIED, m) # {} /\ handed[m].calls # <<>>) =>
               /\ handed[m].calls[1].cb = "fillRectangle"
               /\ handed[m].calls[1].args[5] =
                      BackgroundOf(Latest(TilesWith(HEXTILE_BACKGROUND_SPECIFIED, m)))

\* the subencodings of ZRLE that stand for nothing: a packed palette of more
\* than 16 colours, and run lengths with a palette of one colour
UnusedSubencodings == (17..127) \cup {129}
\* the callbacks of invocation i that paint the tile
PaintsOf(i, tile) ==
    SelectSeq(handed[i].calls,
              LAMBDA c : /\ c.cb \in {"updateRectangle", "fillRectangle"}
                         /\ SubSeq(c.args, 1, 4) = <<tile.tx, tile.ty, tile.tw, tile.th>>)

\* C30: a ZRLE tile whose subencoding is one of 17..127 or 129 is not painted,
\* and the invocation that met it closes the connection
C30_UnusedSubencodingsRejected ==
    \A i \in ZRLEData :
        \A n \in DOMAIN TilesAt(i) :
            TilesAt(i)[n].subencoding \in UnusedSubencodings =>
                /\ PaintsOf(i, TilesAt(i)[n]) = <<>>
                /\ handed[i].disconnect

\* the updateRectangle() and fillRectangle() calls of invocation i
Paints(i) ==
    SelectSeq(handed[i].calls, LAMBDA c : c.cb \in {"updateRectangle", "fillRectangle"})

\* C31: the tiles a ZRLE rectangle (x, y, w, h) is painted in are between 1
\* and 64 wide and tall and lie inside the rectangle, and a rectangle that was
\* decoded to its end was painted in ceil(w / 64) * ceil(h / 64) tiles
C31_ZRLETilesInsideRectangle ==
    \A i \in ZRLEData :
        LET a == ArgsAt(i)
        IN  /\ \A c \in DOMAIN Paints(i) :
                  LET p == Paints(i)[c].args
                  IN  /\ p[3] \in 1..64 /\ p[4] \in 1..64
                      /\ a[1] <= p[1] /\ p[1] + p[3] <= a[1] + a[3]
                      /\ a[2] <= p[2] /\ p[2] + p[4] <= a[2] + a[4]
            /\ handed[i].expect # <<>> =>
                  Count(handed[i].calls, "updateRectangle") =
                      ((a[3] + 63) \div 64) * ((a[4] + 63) \div 64)

\* the last invocation was the decoder of a cursor, on a client that keeps one
CursorDecoded ==
    /\ Len(handed) > 0
    /\ LastHanded.handler = "_handleDecodePsuedoCursor"
    /\ self.cls = "VNCDoToolClient"
    /\ ~self.nocursor
\* C32: after a cursor rectangle without width or without height the client
\* holds no cursor; after one with both it holds the image, the mask and the
\* focus of the rectangle
C32_CursorFollowsRectangle ==
    CursorDecoded =>
        LET a == ArgsAt(Len(handed))
            cut == a[3] * a[4] * bypp(self.pixel_format)
        IN  IF a[3] = 0 \/ a[4] = 0
            THEN self.cursor = <<>> /\ LastHanded.expect # <<>>
            ELSE /\ self.cursor = Image_frombytes(<<a[3], a[4]>>, Take(LastHanded.block, cut),
                                                  self.image_mode)
                 /\ self.cmask = Mask_frombytes(<<a[3], a[4]>>, Drop(LastHanded.block, cut))
                 /\ self.cfocus = <<a[1], a[2]>>

\* C33: a refreshScreen() called while the client has a surface passes to
\* _write() one FramebufferUpdateRequest for (0, 0, W, H), W x H being the size
\* of the surface
C33_RefreshCoversSurface ==
    [][(/\ Len(ops') = Len(ops) + 1
        /\ ops'[Len(ops')].op = "refreshScreen"
        /\ self.screen # <<>>)
       => ops'[Len(ops')].writes =
              <<[kind |-> "FramebufferUpdateRequest",
                 data |-> <<3>> \o PBool(ops'[Len(ops')].args[1]) \o P16(0) \o P16(0) \o
                          P16(self.screen.size[1]) \o P16(self.screen.size[2])]>>]_vars

\* the step is the call of the operation op
Calls(op) == Len(ops') = Len(ops) + 1 /\ ops'[Len(ops')].op = op
\* the PointerEvent of the position and the buttons that s tracks
PointerAt(s) == [kind |-> "PointerEvent", data |-> <<5, s.buttons>> \o P16(s.x) \o P16(s.y)]
WithBit(m, n) == m + (1 - Bit(m, n - 1)) * 2 ^ (n - 1)
WithoutBit(m, n) == m - Bit(m, n - 1) * 2 ^ (n - 1)

\* C34: mouseDown(n) sets and mouseUp(n) clears bit n - 1 of the tracked
\* buttons and leaves the other bits and the position; mouseMove(x, y) leaves
\* the buttons; each passes to _write() the PointerEvent of the tracked
\* position and buttons; mousePress(n) leaves bit n - 1 clear and passes the
\* event with the bit set and then the event with the bit clear
C34_ButtonsTracked ==
    [][LET o == ops'[Len(ops')]
           n == o.args[1]
       IN  /\ Calls("mouseDown") =>
                 /\ self' = [self EXCEPT !.buttons = WithBit(@, n)]
                 /\ o.writes = <<PointerAt(self')>>
           /\ Calls("mouseUp") =>
                 /\ self' = [self EXCEPT !.buttons = WithoutBit(@, n)]
                 /\ o.writes = <<PointerAt(self')>>
           /\ Calls("mousePress") =>
                 /\ self' = [self EXCEPT !.buttons = WithoutBit(@, n)]
                 /\ o.writes = <<PointerAt([self EXCEPT !.buttons = WithBit(@, n)]),
                                 PointerAt(self')>>
           /\ Calls("mouseMove") =>
                 /\ self' = [self EXCEPT !.x = o.args[1], !.y = o.args[2]]
                 /\ o.writes = <<PointerAt(self')>>]_vars

\* the encodings of the SetEncodings message written: one write for its head,
\* one for each encoding
Advertised ==
    {S32(Written("SetEncodings")[k].data, 1) : k \in 2..Len(Written("SetEncodings"))}

\* C35: once SetEncodings is written, the invocation of _handleRectangle for a
\* rectangle of an encoding that the message does not hold closes the
\* connection, expects no decoder and invokes no callback
C35_UnadvertisedEncodingRejected ==
    \A i \in DOMAIN handed :
        (/\ handed[i].handler = "_handleRectangle"
         /\ Written("SetEncodings") # <<>>
         /\ EncodingOf(handed[i]) \notin Advertised)
        => /\ handed[i].disconnect
           /\ handed[i].expect = <<>>
           /\ handed[i].calls = <<>>

\* C36: connected without a password, the invocation of _handleVNCAuth closes
\* the connection and ends in an exception, it is the last invocation of a
\* handler, and neither a response to the challenge nor ClientInit is written
C36_NoPasswordEndsHandshake ==
    \A i \in DOMAIN handed :
        (handed[i].handler = "_handleVNCAuth" /\ self.password = None)
        => /\ handed[i].disconnect
           /\ handed[i].raise
           /\ Len(handed) = i
           /\ Written("VNCResponse") = <<>>
           /\ Written("ClientInit") = <<>>

\* C37: a response of ARD written is 128 + keyLen bytes long, and the keyLen
\* bytes after the ciphertext are g^s mod m for a secret s, padded with zero
\* bytes on the left
C37_ARDResponseLength ==
    \A k \in DOMAIN Written("ARDResponse") :
        LET data == Written("ARDResponse")[k].data
            key == Drop(data, 128)
        IN  /\ Len(data) = 128 + self.keyLen
            /\ \E s \in script.secrets :
                  bytes_to_long(key) = pow(self.generator, s, bytes_to_long(self.modulus))

\* C38: whatever the chunks were, once the whole stream is received and no
\* task is left, no block that the expected handler takes is left in _packet:
\* a chunk boundary after it would have had the block handled
C38_NoBlockLeftBehind ==
    (stream = <<>> /\ Quiet /\ self._handler = "_handleExpected")
    => Len(self._packet) < self._expected_len

\* the PointerEvents among ws
PointerEvents(ws) == SelectSeq(ws, LAMBDA w : w.kind = "PointerEvent")

\* C39: the invocation of an expect-handler leaves the position and the
\* buttons that VNCDoToolClient tracks and writes no PointerEvent
C39_DecodingLeavesPointer ==
    [][(Len(handed') = Len(handed) + 1 /\ self.cls = "VNCDoToolClient")
       => /\ <<self'.x, self'.y, self'.buttons>> = <<self.x, self.y, self.buttons>>
          /\ PointerEvents(written') = PointerEvents(written)]_vars

\* disconnect() has run in the invocation of a handler
DisconnectRan == \E i \in DOMAIN handed : handed[i].disconnect

\* C40: once disconnect() has run nothing more reaches the writer, whatever a
\* handler or a call of the caller passes to _write(), and a disconnect() that
\* runs again leaves the reader, the writer and the receive task as they are
C40_NothingWrittenAfterDisconnect ==
    [][DisconnectRan
       => /\ written' = written
          /\ <<self'.reader, self'.writer>> = <<"None", "None">>
          /\ self'.receive_task = self.receive_task]_vars
\* a handler invoked after the disconnect() passed bytes to _write()
C40_Witness ==
    \E i \in DOMAIN handed :
        /\ handed[i].disconnect
        /\ \E j \in (i + 1)..Len(handed) : handed[j].writes # <<>>

============================================================================
